---------------------------- MODULE Spec2Model ----------------------------
(***************************************************************************)
(* Model of the GPU ecosystem simulation (keias1108/251231).               *)
(*                                                                         *)
(* Three specifications share the variables of this module:                *)
(*                                                                         *)
(*   Spec          one simulation tick at the granularity of single        *)
(*                 kernel threads: updateAgents and processReproduction    *)
(*                 (agents.wgsl), the free list, the high-water mark and   *)
(*                 the metrics block, together with the host operations    *)
(*                 that write GPU state (dispatch, counter poll, reset).   *)
(*   SpecFreeList  freeListPush / freeListPop called by concurrently       *)
(*                 running threads, pushes and pops mixed.                 *)
(*   SpecHost      the host driver: frame loop, pause / resume, field      *)
(*                 ping-pong, command submission order, the counters       *)
(*                 readback (updateCounters) and reset.                    *)
(*                                                                         *)
(* Energies are integer-scaled.  Danger, resource and gain levels are in   *)
(* thousandths.  u32 words wrap modulo 2^32 (see AddU32 / SubU32).         *)
(***************************************************************************)
EXTENDS Integers, Sequences, FiniteSets, TLC

(***************************************************************************)
(* Bounds of the model.                                                    *)
(***************************************************************************)
\* capacity of the agent array (config.maxAgentCount in the program)
MaxAgents == 2
\* largest energy an agent holds in the model (energy units)
MaxEnergy == 2
\* reproThreshold trait of the agents of the model (energy units)
ReproThreshold == 2
\* reproCooldown trait of the agents of the model (ticks)
ReproCooldown == 1
\* births / deaths / uptake the metrics block may hold when a tick is dispatched
MaxPending == 0
\* fixed steps one frame callback takes at most (240 in the program)
MaxSteps == 2
\* births, and deaths, that happen on the GPU in one run of SpecHost
MaxBorn == 1
\* births, and deaths, the host adds to its totals in one run of SpecHost
MaxCounted == 2
\* uptake (micro units) the kernels add in one step of SpecHost
MaxUptake == 1
\* reads one point-inspection query type submits in one run of SpecQuery
MaxQueries == 2
\* simulationTime is kept in fixed steps at timeScale 1, modulo SimTimeWrap
SimTimeWrap == 3
\* frameCount is kept modulo FrameWrap
FrameWrap == 2
\* calls of updateConfig, setTimeScale and resetSimulation in one run of SpecKernelFn
MaxCalls == 3
\* cells along one axis of the grid (config.gridSize) in SpecKernelFn
GridSize == 4
\* position units per cell in SpecKernelFn
PosScale == 2
\* distinct values of Math.random(): r / RandSteps for r in 0 .. RandSteps - 1
RandSteps == 8

(***************************************************************************)
(* Program constants.                                                      *)
(***************************************************************************)
MODE_EXPLORE == 0
MODE_INTAKE == 1
MODE_EVADE == 2
MODE_REPRODUCE == 3
METRICS_U32_COUNT == 23
\* thresholds of the mode decision, in thousandths
PanicDanger == 900
SafeDanger == 600
ResourceFloor == 120
GainEpsilon == 10

\* metrics block: word indices of the named counters (struct Metrics)
M_ALIVE == 0
M_BIRTHS == 1
M_DEATHS == 2
M_UPTAKE == 3

Slots == 0 .. (MaxAgents - 1)
Words == 0 .. (METRICS_U32_COUNT - 1)
DangerLevels == {0, SafeDanger, PanicDanger, PanicDanger + 50}
ResourceLevels == {ResourceFloor, ResourceFloor + 380}
GainLevels == {GainEpsilon, GainEpsilon + 10}

Max(a, b) == IF a >= b THEN a ELSE b
Min(a, b) == IF a <= b THEN a ELSE b

\* A u32 word is represented by the integer congruent to it modulo 2^32 that lies
\* in [-2^31, 2^31): a negative value stands for a word of 2^31 or more, as left
\* by an atomicSub that wrapped below 0.  The counters of the model stay far from
\* 2^31, so atomicAdd / atomicSub are + and - on the representatives.
AddU32(a, b) == a + b
SubU32(a, b) == a - b
\* unsigned comparison of two u32 words
LessU32(a, b) == IF (a < 0) = (b < 0) THEN a < b ELSE b < 0

VARIABLES
    agents,            \* GPU agent array: slot -> record
    agentCount,        \* GPU high-water mark (countBuffer, atomic<u32>)
    freeList,          \* GPU free list: [count, indices]
    metrics,           \* GPU metrics buffer: word -> u32
    phase,             \* "idle", "update" (updateAgents pass), "repro"
    paramsAgentCount,  \* params.agentCount of the dispatched tick
    pc,                \* per kernel thread: position in its kernel
    loc,               \* per kernel thread: its local variables
    stale,             \* slot -> the record a child write of this pass replaced, if unread
    tick0,             \* history: counters when the tick was dispatched
    zeroed,            \* history: threads whose energy was <= 0 after costs
    dropped,           \* history: threads whose reproduction was dropped
    currentAgentCount, \* host copy of agentCount (agent system)
    held,              \* SpecFreeList: thread -> the indices it owns
    currentAliveCount, \* host copy of metrics.alive
    recentBirths,      \* host: births of the last sample
    recentDeaths,      \* host: deaths of the last sample
    recentUptake,      \* host: uptake (micro units) of the last sample
    evolutionBirths,   \* host: evolutionBirths.count
    evolutionDeaths,   \* host: evolutionDeaths.count
    isReadbackMapped,  \* host: busy flag of the counters readback buffer
    readbackBuffer,    \* counters readback buffer: word -> u32
    currentBuffer,     \* field system: ping-pong index, 0 or 1
    running,           \* simulation: frame loop started
    paused,            \* simulation: paused
    submitted,         \* history: the command buffers the running frame callback submitted
    born,              \* history: children created on the GPU since creation
    died,              \* history: deaths on the GPU since creation
    countedBirths,     \* history: births the host has added to its totals
    countedDeaths,     \* history: deaths the host has added to its totals
    stepsLeft,         \* simulation: steps the running frame callback still takes
    inFrame,           \* simulation: the frame callback is running
    queryMapping,      \* simulation: the busy flag of each point-inspection query
    queryInFlight,     \* history: reads of each query type submitted and not resolved
    querySubmits,      \* history: command buffers each query type has submitted
    queryReturn,       \* history: what the last call of each query type returned
    probeDirty,        \* simulation: the probe cell changed since the last probe read
    probeCell,         \* simulation: the probe cell index, -1 before the first one
    probeCopied,       \* history: the cell the probe read in flight copied, -1 if none
    lastProbeData,     \* simulation: lastProbeData, as the cell in x / y and the cell its values are of
    fnInput,           \* SpecKernelFn: the inputs of the kernel function under study
    fnOutput,          \* SpecKernelFn: its result, <<>> before it has run
    readbackMaps,      \* history: mapAsync calls on the counters readback buffer not yet unmapped
    readbackStale,     \* history: a reset came after the last copy into the counters readback buffer
    stepAccumulator,   \* simulation: unspent frame time, in time units
    frameSteps,        \* history: fixed steps the last frame callback ran
    frameDelta,        \* history: deltaTime of the last frame callback after its clamp
    simulationTime,    \* simulation: simulationTime
    frameCount,        \* simulation: frameCount, the frames rendered
    frameLoops         \* history: frame callbacks requested and neither run nor cancelled

gpuVars == <<agents, agentCount, freeList, metrics>>
tickVars == <<phase, paramsAgentCount, pc, loc, stale, tick0, zeroed, dropped>>
\* the host state that only SpecHost changes
hostVars == <<currentAliveCount, recentBirths, recentDeaths, recentUptake,
              evolutionBirths, evolutionDeaths, isReadbackMapped, readbackBuffer,
              currentBuffer, running, paused, submitted, born, died,
              countedBirths, countedDeaths, stepsLeft, inFrame>>
\* the state of the point-inspection queries and of the kernel function study
probeReadVars == <<probeCopied, lastProbeData>>
auxRest == <<queryMapping, queryInFlight, querySubmits, queryReturn, probeDirty,
             probeCell, probeReadVars, fnInput, fnOutput, readbackMaps>>
auxVars == <<auxRest, readbackStale>>
\* the time bookkeeping of the frame callback
loopVars == <<simulationTime, frameCount, frameLoops>>
frameVars == <<stepAccumulator, frameSteps, frameDelta, loopVars>>
vars == <<agents, agentCount, freeList, metrics, phase, paramsAgentCount, pc,
          loc, stale, tick0, zeroed, dropped, currentAgentCount, held,
          currentAliveCount, recentBirths, recentDeaths, recentUptake,
          evolutionBirths, evolutionDeaths, isReadbackMapped, readbackBuffer,
          currentBuffer, running, paused, submitted, born, died,
          countedBirths, countedDeaths, stepsLeft, inFrame, queryMapping,
          queryInFlight, querySubmits, queryReturn, probeDirty, probeCell,
          probeCopied, lastProbeData, fnInput,
          fnOutput, readbackMaps, readbackStale, stepAccumulator, frameSteps, frameDelta,
          simulationTime, frameCount, frameLoops>>

(***************************************************************************)
(* Agent records.                                                          *)
(***************************************************************************)
\* a slot of the zero-initialised Float32Array
ZeroAgent == [alive |-> 0, mode |-> MODE_EXPLORE, energy |-> 0, cooldown |-> 0]

\* a seeded agent: alive, EXPLORE, cooldown 0, random energy
SeedAgent(e) == [alive |-> 1, mode |-> MODE_EXPLORE, energy |-> e, cooldown |-> 0]

SeedEnergies == 1 .. MaxEnergy

\* the agent data written by createAgentSystem / reset for an initial count n
SeedArrays(n) ==
    { f \in [Slots -> {ZeroAgent} \cup {SeedAgent(e) : e \in SeedEnergies}] :
        \A i \in Slots : (f[i].alive = 1) <=> (i < n) }

\* a metrics buffer created without the initial alive count
MetricsInit_AllZero(n) == [w \in Words |-> 0]

MetricsInit(n) == [w \in Words |-> IF w = M_ALIVE THEN n ELSE 0]

FreeListInit == [count |-> 0, indices |-> [s \in Slots |-> 0]]

NoLoc == [agent |-> ZeroAgent, slot |-> 0, count |-> 0, newIdx |-> 0]

NoTick == [alive |-> 0, deaths |-> 0, freeCount |-> 0]


(***************************************************************************)
(* Initial state: createAgentSystem with config.initialAgentCount = n.     *)
(***************************************************************************)
TickIdle ==
    /\ phase = "idle"
    /\ pc = [t \in Slots |-> "done"]

InitTick ==
    /\ phase = "idle"
    /\ paramsAgentCount = 0
    /\ pc = [t \in Slots |-> "done"]
    /\ loc = [t \in Slots |-> NoLoc]
    /\ stale = [s \in Slots |-> <<>>]
    /\ tick0 = NoTick
    /\ zeroed = {}
    /\ dropped = {}

createAgentSystem(n) ==
    /\ agents \in SeedArrays(n)
    /\ agentCount = n
    /\ metrics = MetricsInit(n)
    /\ freeList = FreeListInit
    /\ currentAgentCount = n

\* the point-inspection queries of the simulation, by their readback buffer
QueryTypes == {"fieldCell", "agentSingle", "agentPick", "probe"}

\* lastProbeData = null
NoProbeData == [x |-> -1, valuesOf |-> -1]

\* the host state after createAgentSystem, createFieldSystem and createSimulation
InitHost(n) ==
    /\ currentAliveCount = n
    /\ recentBirths = 0
    /\ recentDeaths = 0
    /\ recentUptake = 0
    /\ evolutionBirths = 0
    /\ evolutionDeaths = 0
    /\ isReadbackMapped = FALSE
    /\ readbackBuffer = [w \in 0 .. METRICS_U32_COUNT |-> 0]
    /\ currentBuffer = 0
    /\ running = FALSE
    /\ paused = FALSE
    /\ submitted = <<>>
    /\ born = 0
    /\ died = 0
    /\ countedBirths = 0
    /\ countedDeaths = 0
    /\ stepsLeft = 0
    /\ inFrame = FALSE
    /\ queryMapping = [q \in QueryTypes |-> FALSE]
    /\ queryInFlight = [q \in QueryTypes |-> 0]
    /\ querySubmits = [q \in QueryTypes |-> 0]
    /\ queryReturn = [q \in QueryTypes |-> "none"]
    /\ probeDirty = FALSE
    /\ probeCell = -1
    /\ probeCopied = -1
    /\ lastProbeData = NoProbeData
    /\ readbackMaps = 0
    /\ readbackStale = FALSE
    /\ stepAccumulator = 0
    /\ frameSteps = 0
    /\ frameDelta = 0
    /\ simulationTime = 0
    /\ frameCount = 0
    /\ frameLoops = 0

Init ==
    /\ \E n \in 0 .. MaxAgents : createAgentSystem(n) /\ InitHost(n)
    /\ InitTick
    /\ held = [t \in Slots |-> {}]
    /\ fnInput = <<>>
    /\ fnOutput = <<>>

\* createSimulation with config.initialAgentCount = 1
InitGuards ==
    /\ createAgentSystem(1)
    /\ InitHost(1)
    /\ InitTick
    /\ held = [t \in Slots |-> {}]
    /\ fnInput = <<>>
    /\ fnOutput = <<>>

(***************************************************************************)
(* Host: AgentSystem.update encodes the two passes of a tick.  The uniform *)
(* params.agentCount is the host's copy currentAgentCount; the threads of  *)
(* the updateAgents pass start.                                            *)
(***************************************************************************)
MetricsDispatchable ==
    /\ metrics[M_BIRTHS] <= MaxPending
    /\ metrics[M_DEATHS] <= MaxPending
    /\ metrics[M_UPTAKE] <= MaxPending

AgentUpdateDispatch ==
    /\ TickIdle
    /\ MetricsDispatchable
    /\ phase' = "update"
    /\ paramsAgentCount' = currentAgentCount
    /\ pc' = [t \in Slots |-> "u_start"]
    /\ tick0' = [alive |-> metrics[M_ALIVE], deaths |-> metrics[M_DEATHS],
                 freeCount |-> freeList.count]
    /\ zeroed' = {}
    /\ dropped' = {}
    /\ UNCHANGED <<gpuVars, loc, stale, currentAgentCount, held, auxVars, frameVars, hostVars>>

(***************************************************************************)
(* updateAgents (agents.wgsl 202-369), one thread per index.               *)
(***************************************************************************)
\* a mode decision whose last branch leaves newMode at its initial value agent.mode
DecideMode_KeepsMode(agentMode, danger, energy, reproThreshold, cooldown, res, gain) ==
    LET panic == danger > PanicDanger
    IN  IF ~panic /\ energy >= reproThreshold /\ cooldown <= 0 /\ danger < SafeDanger
        THEN MODE_REPRODUCE
        ELSE IF panic THEN MODE_EVADE
        ELSE IF res > ResourceFloor /\ gain > GainEpsilon THEN MODE_INTAKE
        ELSE agentMode

\* the mode decision of updateAgents: danger and resource and gain in thousandths;
\* newMode starts as agent.mode (agentMode) and every branch assigns it
DecideMode(agentMode, danger, energy, reproThreshold, cooldown, res, gain) ==
    LET panic == danger > PanicDanger
    IN  IF ~panic /\ energy >= reproThreshold /\ cooldown <= 0 /\ danger < SafeDanger
        THEN MODE_REPRODUCE
        ELSE IF panic THEN MODE_EVADE
        ELSE IF res > ResourceFloor /\ gain > GainEpsilon THEN MODE_INTAKE
        ELSE MODE_EXPLORE

\* agent.energy *= 0.5, on integer-scaled energy (a positive energy stays positive)
HalfEnergy(e) == (e + 1) \div 2

\* sections 2-5 of updateAgents: mode, uptake, energy costs, cooldown
\* (up: uptake amount when in INTAKE mode, cost: the tick's energy cost)
AfterCosts(a, mode, up, cost) ==
    [a EXCEPT !.mode = mode,
              !.energy = Max(0, (IF mode = MODE_INTAKE THEN a.energy + up ELSE a.energy) - cost),
              !.cooldown = Max(0, a.cooldown - 1)]

\* section 6 of updateAgents, the branch an agent with this record takes
\* a death test that lets an agent with exactly zero energy live
LifecycleDies_Negative(a) == a.energy < 0

LifecycleDies(a) == a.energy <= 0

LifecycleReproduces(a) == a.mode = MODE_REPRODUCE /\ a.cooldown <= 0

\* an early return that forgets the alive test
UpdateSkips_RangeOnly(t) == ~LessU32(t, paramsAgentCount)

\* threads beyond params.agentCount and threads of dead records return at once
UpdateSkips(t) == ~LessU32(t, paramsAgentCount) \/ agents[t].alive = 0

UpdateReturn(t) ==
    /\ phase = "update"
    /\ pc[t] = "u_start"
    /\ UpdateSkips(t)
    /\ pc' = [pc EXCEPT ![t] = "done"]
    /\ UNCHANGED <<gpuVars, phase, paramsAgentCount, loc, stale, tick0, zeroed,
                   dropped, currentAgentCount, held, auxVars, frameVars, hostVars>>

\* a store that lands in the record of the next index
StoreRecord_Neighbour(ags, index, agent) == [ags EXCEPT ![(index + 1) % MaxAgents] = agent]

\* agents[idx] = agent, the last statement of updateAgents
StoreRecord(ags, index, agent) == [ags EXCEPT ![index] = agent]

\* a living agent that survives the tick: its record is rewritten in place
UpdateSurvive(t) ==
    /\ phase = "update"
    /\ pc[t] = "u_start"
    /\ ~UpdateSkips(t)
    /\ \E danger \in DangerLevels, res \in ResourceLevels, gain \in GainLevels,
          up \in 0 .. MaxEnergy, cost \in 0 .. MaxEnergy :
          LET a0 == agents[t]
              mode == DecideMode(a0.mode, danger, a0.energy, ReproThreshold, a0.cooldown, res, gain)
              a1 == AfterCosts(a0, mode, up, cost)
              a2 == IF LifecycleReproduces(a1)
                    THEN [a1 EXCEPT !.energy = HalfEnergy(a1.energy),
                                    !.cooldown = ReproCooldown]
                    ELSE a1
          IN  /\ mode = MODE_INTAKE => a0.energy + up <= MaxEnergy
              /\ ~LifecycleDies(a1)
              /\ agents' = StoreRecord(agents, t, a2)
              /\ metrics' = IF mode = MODE_INTAKE
                            THEN [metrics EXCEPT ![M_UPTAKE] = AddU32(@, up)]
                            ELSE metrics
    /\ pc' = [pc EXCEPT ![t] = "done"]
    /\ UNCHANGED <<agentCount, freeList, phase, paramsAgentCount, loc, stale, tick0,
                   zeroed, dropped, currentAgentCount, held, auxVars, frameVars, hostVars>>

\* a living agent whose energy is <= 0 after the costs: alive = 0 in the local copy
UpdateDie(t) ==
    /\ phase = "update"
    /\ pc[t] = "u_start"
    /\ ~UpdateSkips(t)
    /\ \E danger \in DangerLevels, res \in ResourceLevels, gain \in GainLevels,
          up \in 0 .. MaxEnergy, cost \in 0 .. MaxEnergy :
          LET a0 == agents[t]
              mode == DecideMode(a0.mode, danger, a0.energy, ReproThreshold, a0.cooldown, res, gain)
              a1 == AfterCosts(a0, mode, up, cost)
          IN  /\ mode = MODE_INTAKE => a0.energy + up <= MaxEnergy
              /\ LifecycleDies(a1)
              /\ loc' = [loc EXCEPT ![t] = [NoLoc EXCEPT !.agent = [a1 EXCEPT !.alive = 0]]]
              /\ metrics' = IF mode = MODE_INTAKE
                            THEN [metrics EXCEPT ![M_UPTAKE] = AddU32(@, up)]
                            ELSE metrics
    /\ zeroed' = zeroed \cup {t}
    /\ pc' = [pc EXCEPT ![t] = "u_deaths"]
    /\ UNCHANGED <<agents, agentCount, freeList, phase, paramsAgentCount, stale, tick0,
                   dropped, currentAgentCount, held, auxVars, frameVars, hostVars>>

\* atomicAdd(&metrics.deaths, 1u)
UpdateCountDeath(t) ==
    /\ phase = "update"
    /\ pc[t] = "u_deaths"
    /\ metrics' = [metrics EXCEPT ![M_DEATHS] = AddU32(@, 1)]
    /\ pc' = [pc EXCEPT ![t] = "u_alive"]
    /\ UNCHANGED <<agents, agentCount, freeList, phase, paramsAgentCount, loc, stale,
                   tick0, zeroed, dropped, currentAgentCount, held, auxVars, frameVars, hostVars>>

\* atomicSub(&metrics.alive, 1u)
UpdateUncountAlive(t) ==
    /\ phase = "update"
    /\ pc[t] = "u_alive"
    /\ metrics' = [metrics EXCEPT ![M_ALIVE] = SubU32(@, 1)]
    /\ pc' = [pc EXCEPT ![t] = "u_push"]
    /\ UNCHANGED <<agents, agentCount, freeList, phase, paramsAgentCount, loc, stale,
                   tick0, zeroed, dropped, currentAgentCount, held, auxVars, frameVars, hostVars>>

\* freeListPush, first half: slot = atomicAdd(&freeList.count, 1u)
PushAdd(fl) == [fl EXCEPT !.count = AddU32(@, 1)]

\* freeListPush, second half: write the index, or undo the increment on overflow
PushStore(fl, slot, index) ==
    IF LessU32(slot, MaxAgents)
    THEN [fl EXCEPT !.indices[slot] = index]
    ELSE [fl EXCEPT !.count = SubU32(@, 1)]

UpdatePushAdd(t) ==
    /\ phase = "update"
    /\ pc[t] = "u_push"
    /\ loc' = [loc EXCEPT ![t].slot = freeList.count]
    /\ freeList' = PushAdd(freeList)
    /\ pc' = [pc EXCEPT ![t] = "u_pushw"]
    /\ UNCHANGED <<agents, agentCount, metrics, phase, paramsAgentCount, stale, tick0,
                   zeroed, dropped, currentAgentCount, held, auxVars, frameVars, hostVars>>

UpdatePushStore(t) ==
    /\ phase = "update"
    /\ pc[t] = "u_pushw"
    /\ freeList' = PushStore(freeList, loc[t].slot, t)
    /\ pc' = [pc EXCEPT ![t] = "u_store"]
    /\ UNCHANGED <<agents, agentCount, metrics, phase, paramsAgentCount, loc, stale,
                   tick0, zeroed, dropped, currentAgentCount, held, auxVars, frameVars, hostVars>>

\* agents[idx] = agent, by a thread whose agent died
UpdateStoreDead(t) ==
    /\ phase = "update"
    /\ pc[t] = "u_store"
    /\ agents' = StoreRecord(agents, t, loc[t].agent)
    /\ loc' = [loc EXCEPT ![t] = NoLoc]
    /\ pc' = [pc EXCEPT ![t] = "done"]
    /\ UNCHANGED <<agentCount, freeList, metrics, phase, paramsAgentCount, stale, tick0,
                   zeroed, dropped, currentAgentCount, held, auxVars, frameVars, hostVars>>

\* the updateAgents pass has ended; the processReproduction pass begins
ReproductionPassBegin ==
    /\ phase = "update"
    /\ \A t \in Slots : pc[t] = "done"
    /\ phase' = "repro"
    /\ pc' = [t \in Slots |-> "r_start"]
    /\ UNCHANGED <<gpuVars, paramsAgentCount, loc, stale, tick0, zeroed, dropped,
                   currentAgentCount, held, auxVars, frameVars, hostVars>>

(***************************************************************************)
(* processReproduction (agents.wgsl 372-451), one thread per index.        *)
(***************************************************************************)
\* The read `parent = agents[idx]` is not ordered with the write
\* `agents[newIdx] = child` of another thread of the same dispatch.  When that
\* write has hit slot idx, the read returns the replaced record, the child, or
\* any field-wise mixture of the two.
Mixtures(old, new) ==
    { [alive |-> a, mode |-> m, energy |-> e, cooldown |-> c] :
        a \in {old.alive, new.alive}, m \in {old.mode, new.mode},
        e \in {old.energy, new.energy}, c \in {old.cooldown, new.cooldown} }

ParentReads(t) ==
    IF stale[t] = <<>> THEN {agents[t]} ELSE Mixtures(stale[t][1], agents[t])

\* the early return of processReproduction on the record it read
ReproSkips(p) == p.alive = 0 \/ p.mode # MODE_REPRODUCE

ReproReturn(t) ==
    /\ phase = "repro"
    /\ pc[t] = "r_start"
    /\ \/ ~LessU32(t, paramsAgentCount)
       \/ /\ LessU32(t, paramsAgentCount)
          /\ \E p \in ParentReads(t) : ReproSkips(p)
    /\ stale' = [stale EXCEPT ![t] = <<>>]
    /\ pc' = [pc EXCEPT ![t] = "done"]
    /\ UNCHANGED <<gpuVars, phase, paramsAgentCount, loc, tick0, zeroed, dropped,
                   currentAgentCount, held, auxVars, frameVars, hostVars>>

ReproParent(t) ==
    /\ phase = "repro"
    /\ pc[t] = "r_start"
    /\ LessU32(t, paramsAgentCount)
    /\ \E p \in ParentReads(t) :
          /\ ~ReproSkips(p)
          /\ loc' = [loc EXCEPT ![t] = [NoLoc EXCEPT !.agent = p]]
    /\ stale' = [stale EXCEPT ![t] = <<>>]
    /\ pc' = [pc EXCEPT ![t] = "r_load"]
    /\ UNCHANGED <<gpuVars, phase, paramsAgentCount, tick0, zeroed, dropped,
                   currentAgentCount, held, auxVars, frameVars, hostVars>>

\* freeListPop: count = atomicLoad(&freeList.count); count == 0 returns -1
ReproPopLoad(t) ==
    /\ phase = "repro"
    /\ pc[t] = "r_load"
    /\ loc' = [loc EXCEPT ![t].count = freeList.count]
    /\ pc' = [pc EXCEPT ![t] = IF freeList.count = 0 THEN "r_bump" ELSE "r_cas"]
    /\ UNCHANGED <<gpuVars, phase, paramsAgentCount, stale, tick0, zeroed, dropped,
                   currentAgentCount, held, auxVars, frameVars, hostVars>>

\* freeListPop: a successful atomicCompareExchangeWeak(&count, count, count - 1)
\* a pop whose exchange leaves the count as it was
PopExchange_NoDecrement(fl, count) == fl

PopExchange(fl, count) == [fl EXCEPT !.count = count - 1]

ReproPopExchange(t) ==
    /\ phase = "repro"
    /\ pc[t] = "r_cas"
    /\ freeList.count = loc[t].count
    /\ freeList' = PopExchange(freeList, loc[t].count)
    /\ pc' = [pc EXCEPT ![t] = "r_top"]
    /\ UNCHANGED <<agents, agentCount, metrics, phase, paramsAgentCount, loc, stale,
                   tick0, zeroed, dropped, currentAgentCount, held, auxVars, frameVars, hostVars>>

\* freeListPop: the exchange fails (the count moved, or spuriously): loop again
ReproPopRetry(t) ==
    /\ phase = "repro"
    /\ pc[t] = "r_cas"
    /\ pc' = [pc EXCEPT ![t] = "r_load"]
    /\ UNCHANGED <<gpuVars, phase, paramsAgentCount, loc, stale, tick0, zeroed,
                   dropped, currentAgentCount, held, auxVars, frameVars, hostVars>>

\* freeListPop: return i32(freeList.indices[count - 1u])
PopTop(fl, count) == fl.indices[count - 1]

ReproPopTop(t) ==
    /\ phase = "repro"
    /\ pc[t] = "r_top"
    /\ loc' = [loc EXCEPT ![t].newIdx = PopTop(freeList, loc[t].count)]
    /\ pc' = [pc EXCEPT ![t] = "r_child"]
    /\ UNCHANGED <<gpuVars, phase, paramsAgentCount, stale, tick0, zeroed, dropped,
                   currentAgentCount, held, auxVars, frameVars, hostVars>>

\* the capacity test on the index returned by atomicAdd(&agentCount, 1u)
\* a capacity test that is off by one
OverCapacity_OffByOne(newIdx) == ~LessU32(newIdx, MaxAgents + 1)

OverCapacity(newIdx) == ~LessU32(newIdx, MaxAgents)

\* free list empty: newIdx = atomicAdd(&agentCount, 1u)
ReproBump(t) ==
    /\ phase = "repro"
    /\ pc[t] = "r_bump"
    /\ loc' = [loc EXCEPT ![t].newIdx = agentCount]
    /\ agentCount' = AddU32(agentCount, 1)
    /\ pc' = [pc EXCEPT ![t] = IF OverCapacity(agentCount) THEN "r_rollback" ELSE "r_child"]
    /\ UNCHANGED <<agents, freeList, metrics, phase, paramsAgentCount, stale, tick0,
                   zeroed, dropped, currentAgentCount, held, auxVars, frameVars, hostVars>>

\* a dropped attempt that leaves its increment in place
AtomicSubAgentCount_Skipped(count) == count

\* atomicSub(&agentCount, 1u) of a dropped attempt
AtomicSubAgentCount(count) == SubU32(count, 1)

\* capacity exhausted: atomicSub(&agentCount, 1u); return
ReproRollback(t) ==
    /\ phase = "repro"
    /\ pc[t] = "r_rollback"
    /\ agentCount' = AtomicSubAgentCount(agentCount)
    /\ dropped' = dropped \cup {t}
    /\ loc' = [loc EXCEPT ![t] = NoLoc]
    /\ pc' = [pc EXCEPT ![t] = "done"]
    /\ UNCHANGED <<agents, freeList, metrics, phase, paramsAgentCount, stale, tick0,
                   zeroed, currentAgentCount, held, auxVars, frameVars, hostVars>>

\* a child that receives half of the energy its parent kept
ChildEnergy_Half(e) == (e + 1) \div 2

\* child.energy = parent.energy * 0.8, on integer-scaled energy (rounded up)
ChildEnergy(e) == (4 * e + 4) \div 5

\* the child record built from the parent record the thread read
Child(parent) ==
    [alive |-> 1, mode |-> MODE_EXPLORE, energy |-> ChildEnergy(parent.energy),
     cooldown |-> ReproCooldown]

\* agents[newIdx] = child
ReproWriteChild(t) ==
    /\ phase = "repro"
    /\ pc[t] = "r_child"
    /\ LET k == loc[t].newIdx
       IN  IF k \in Slots
           THEN /\ agents' = [agents EXCEPT ![k] = Child(loc[t].agent)]
                /\ stale' = IF pc[k] = "r_start" /\ stale[k] = <<>>
                            THEN [stale EXCEPT ![k] = <<agents[k]>>]
                            ELSE stale
           ELSE \* a store past the end of the array is discarded
                UNCHANGED <<agents, stale>>
    /\ pc' = [pc EXCEPT ![t] = "r_births"]
    /\ UNCHANGED <<agentCount, freeList, metrics, phase, paramsAgentCount, loc, tick0,
                   zeroed, dropped, currentAgentCount, held, auxVars, frameVars, hostVars>>

\* atomicAdd(&metrics.births, 1u)
ReproCountBirth(t) ==
    /\ phase = "repro"
    /\ pc[t] = "r_births"
    /\ metrics' = [metrics EXCEPT ![M_BIRTHS] = AddU32(@, 1)]
    /\ pc' = [pc EXCEPT ![t] = "r_alive"]
    /\ UNCHANGED <<agents, agentCount, freeList, phase, paramsAgentCount, loc, stale,
                   tick0, zeroed, dropped, currentAgentCount, held, auxVars, frameVars, hostVars>>

\* atomicAdd(&metrics.alive, 1u)
ReproCountAlive(t) ==
    /\ phase = "repro"
    /\ pc[t] = "r_alive"
    /\ metrics' = [metrics EXCEPT ![M_ALIVE] = AddU32(@, 1)]
    /\ loc' = [loc EXCEPT ![t] = NoLoc]
    /\ pc' = [pc EXCEPT ![t] = "done"]
    /\ UNCHANGED <<agents, agentCount, freeList, phase, paramsAgentCount, stale, tick0,
                   zeroed, dropped, currentAgentCount, held, auxVars, frameVars, hostVars>>

\* both passes of the tick have run: the GPU is idle again
TickEnd ==
    /\ phase = "repro"
    /\ \A t \in Slots : pc[t] = "done"
    /\ phase' = "idle"
    /\ paramsAgentCount' = 0
    /\ tick0' = NoTick
    /\ zeroed' = {}
    /\ dropped' = {}
    /\ UNCHANGED <<gpuVars, pc, loc, stale, currentAgentCount, held, auxVars, frameVars, hostVars>>

(***************************************************************************)
(* Host operations on the GPU state (agent system).  The queue orders a    *)
(* writeBuffer after the command buffers submitted before it, so they act  *)
(* between ticks.                                                          *)
(***************************************************************************)
\* device.queue.writeBuffer(buf, byteOffset, data), data a sequence of u32 words
WriteBuffer(buf, byteOffset, data) ==
    [w \in DOMAIN buf |->
        IF w >= byteOffset \div 4 /\ w < byteOffset \div 4 + Len(data)
        THEN data[w - byteOffset \div 4 + 1]
        ELSE buf[w]]

ZeroWords(n) == [i \in 1 .. n |-> 0]

\* a drain that starts at byte 0
MetricsDrain_FromWordZero(m) == WriteBuffer(m, 0, ZeroWords(METRICS_U32_COUNT))

\* updateCounters: the reset of the "recent" accumulators after a read
MetricsDrain(m) == WriteBuffer(m, 4, ZeroWords(METRICS_U32_COUNT - 1))

\* updateCounters as far as the kernels see it: currentAgentCount becomes the count
\* word of the readback buffer (a copy of agentCount made at the end of some
\* earlier step, possibly before a reset), the accumulators are drained
UpdateCountersPoll ==
    /\ TickIdle
    /\ \E data0 \in 0 .. MaxAgents : currentAgentCount' = IF LessU32(data0, MaxAgents) THEN data0 ELSE MaxAgents
    /\ metrics' = MetricsDrain(metrics)
    /\ UNCHANGED <<agents, agentCount, freeList, tickVars, held, auxVars, frameVars, hostVars>>

\* AgentSystem.reset with config.initialAgentCount = n
AgentSystemReset ==
    /\ TickIdle
    /\ \E n \in 0 .. MaxAgents :
          /\ agents' \in SeedArrays(n)
          /\ agentCount' = n
          /\ metrics' = WriteBuffer(metrics, 0, [i \in 1 .. METRICS_U32_COUNT |->
                                                    MetricsInit(n)[i - 1]])
          /\ freeList' = FreeListInit
          /\ currentAgentCount' = n
    /\ UNCHANGED <<tickVars, held, auxVars, frameVars, hostVars>>

UpdateThread(t) ==
    \/ UpdateReturn(t)
    \/ UpdateSurvive(t)
    \/ UpdateDie(t)
    \/ UpdateCountDeath(t)
    \/ UpdateUncountAlive(t)
    \/ UpdatePushAdd(t)
    \/ UpdatePushStore(t)
    \/ UpdateStoreDead(t)

ReproThread(t) ==
    \/ ReproReturn(t)
    \/ ReproParent(t)
    \/ ReproPopLoad(t)
    \/ ReproPopExchange(t)
    \/ ReproPopRetry(t)
    \/ ReproPopTop(t)
    \/ ReproBump(t)
    \/ ReproRollback(t)
    \/ ReproWriteChild(t)
    \/ ReproCountBirth(t)
    \/ ReproCountAlive(t)

Next ==
    \/ AgentUpdateDispatch
    \/ \E t \in Slots : UpdateThread(t)
    \/ ReproductionPassBegin
    \/ \E t \in Slots : ReproThread(t)
    \/ TickEnd
    \/ UpdateCountersPoll
    \/ AgentSystemReset

Spec == Init /\ [][Next]_vars

(***************************************************************************)
(* SpecFreeList: freeListPush and freeListPop called concurrently, pushes  *)
(* and pops mixed.  Thread t owns the indices in held[t]; a push gives one *)
(* of them to the list, a pop takes the index it returns.  The steps are   *)
(* the atomic operations and the plain loads and stores of the two         *)
(* functions.                                                              *)
(***************************************************************************)
\* the list holds the indices 0 .. k-1, thread t >= k owns index t
InitFreeList ==
    /\ createAgentSystem(0)
    /\ InitHost(0)
    /\ fnInput = <<>>
    /\ fnOutput = <<>>
    /\ phase = "mixed"
    /\ paramsAgentCount = 0
    /\ pc = [t \in Slots |-> "idle"]
    /\ loc = [t \in Slots |-> NoLoc]
    /\ stale = [s \in Slots |-> <<>>]
    /\ tick0 = NoTick
    /\ zeroed = {}
    /\ dropped = {}
    /\ held = [t \in Slots |-> {t}]

listVars == <<freeList, pc, loc, held>>
restVars == <<agents, agentCount, metrics, phase, paramsAgentCount, stale, tick0,
              zeroed, dropped, currentAgentCount, hostVars, auxVars, frameVars>>

\* freeListPush(index): slot = atomicAdd(&freeList.count, 1u)
FLPushAdd(t) ==
    /\ phase = "mixed"
    /\ pc[t] = "idle"
    /\ \E i \in held[t] :
          /\ loc' = [loc EXCEPT ![t] = [NoLoc EXCEPT !.slot = freeList.count, !.newIdx = i]]
          /\ held' = [held EXCEPT ![t] = @ \ {i}]
    /\ freeList' = PushAdd(freeList)
    /\ pc' = [pc EXCEPT ![t] = "p_store"]
    /\ UNCHANGED restVars

\* freeListPush: freeList.indices[slot] = index, or the rollback on overflow
FLPushStore(t) ==
    /\ phase = "mixed"
    /\ pc[t] = "p_store"
    /\ freeList' = PushStore(freeList, loc[t].slot, loc[t].newIdx)
    /\ loc' = [loc EXCEPT ![t] = NoLoc]
    /\ pc' = [pc EXCEPT ![t] = "idle"]
    /\ UNCHANGED <<held, restVars>>

\* freeListPop: count = atomicLoad(&freeList.count); return -1 if it is 0
FLPopLoad(t) ==
    /\ phase = "mixed"
    /\ pc[t] \in {"idle", "q_load"}
    /\ IF freeList.count = 0
       THEN /\ pc[t] = "q_load"
            /\ pc' = [pc EXCEPT ![t] = "idle"]
            /\ loc' = [loc EXCEPT ![t] = NoLoc]
       ELSE /\ pc' = [pc EXCEPT ![t] = "q_cas"]
            /\ loc' = [loc EXCEPT ![t] = [NoLoc EXCEPT !.count = freeList.count]]
    /\ UNCHANGED <<freeList, held, restVars>>

\* freeListPop: atomicCompareExchangeWeak(&freeList.count, count, count - 1u) exchanged
FLPopExchange(t) ==
    /\ phase = "mixed"
    /\ pc[t] = "q_cas"
    /\ freeList.count = loc[t].count
    /\ freeList' = PopExchange(freeList, loc[t].count)
    /\ pc' = [pc EXCEPT ![t] = "q_top"]
    /\ UNCHANGED <<loc, held, restVars>>

\* freeListPop: the exchange failed (the count moved, or the weak exchange failed
\* spuriously): the loop loads the count again
FLPopRetry(t) ==
    /\ phase = "mixed"
    /\ pc[t] = "q_cas"
    /\ pc' = [pc EXCEPT ![t] = "q_load"]
    /\ UNCHANGED <<freeList, loc, held, restVars>>

\* freeListPop: return i32(freeList.indices[count - 1u])
FLPopTop(t) ==
    /\ phase = "mixed"
    /\ pc[t] = "q_top"
    /\ held' = [held EXCEPT ![t] = @ \cup {PopTop(freeList, loc[t].count)}]
    /\ loc' = [loc EXCEPT ![t] = NoLoc]
    /\ pc' = [pc EXCEPT ![t] = "idle"]
    /\ UNCHANGED <<freeList, restVars>>

NextFreeList ==
    \/ \E t \in Slots : FLPushAdd(t)
    \/ \E t \in Slots : FLPushStore(t)
    \/ \E t \in Slots : FLPopLoad(t)
    \/ \E t \in Slots : FLPopExchange(t)
    \/ \E t \in Slots : FLPopRetry(t)
    \/ \E t \in Slots : FLPopTop(t)

SpecFreeList == InitFreeList /\ [][NextFreeList]_vars

(***************************************************************************)
(* SpecHost: the host side.  The frame callback, the 500 ms counters poll  *)
(* and its continuation after mapAsync, pause / resume and reset are       *)
(* callbacks of one JavaScript thread: none starts while another runs.     *)
(* The queue runs command buffers and writeBuffer calls in the order of    *)
(* their submission, and the host sees their results only through          *)
(* mapAsync, which resolves after them; a submitted command buffer         *)
(* therefore acts at its submission.  A tick of the two kernels is taken   *)
(* as a whole here: d deaths, b children written, u uptake.                *)
(***************************************************************************)
HostIdle == ~inFrame

\* fieldBindGroup0 / fieldBindGroup1 with the access of bindGroupLayout: the
\* index of the buffer of each pair bound for reading and for writing
FieldBindGroups(i) ==
    [resourceIn |-> i, resourceOut |-> 1 - i,
     dangerIn |-> i, dangerOut |-> 1 - i,
     pheromoneIn |-> i, pheromoneOut |-> 1 - i]

\* a field update that swaps the buffers before it binds them
FieldUpdatePass_SwapFirst(cur) == [label |-> "fieldUpdate", bind |-> FieldBindGroups(1 - cur)]

\* FieldSystem.update: the compute pass it encodes
FieldUpdatePass(cur) == [label |-> "fieldUpdate", bind |-> FieldBindGroups(cur)]

\* FieldSystem.update: the buffer swap after the pass
FieldSwap(cur) == 1 - cur

getResourceBuffer(cur) == cur
getDangerBuffer(cur) == cur
getPheromoneBuffer(cur) == cur

\* AgentSystem.update: the bind group it creates
AgentBindGroup(cur, n) ==
    [resource |-> getResourceBuffer(cur), danger |-> getDangerBuffer(cur),
     pheromone |-> getPheromoneBuffer(cur), agentCount |-> n]

\* AgentSystem.update: the passes it encodes, the readback copies last and only
\* while the readback buffer is not mapped
AgentPasses(cur, n, copies) ==
    <<[label |-> "agentUpdate", bind |-> AgentBindGroup(cur, n)],
      [label |-> "agentReproduction", bind |-> AgentBindGroup(cur, n)]>>
    \o (IF copies THEN <<[label |-> "copy", bind |-> AgentBindGroup(cur, n)]>> ELSE <<>>)

\* a step that submits the agent command buffer first
StepSubmits_AgentFirst(step, fieldPass, agentPasses) ==
    <<[label |-> "agentUpdate", step |-> step, passes |-> agentPasses],
      [label |-> "fieldUpdate", step |-> step, passes |-> <<fieldPass>>]>>

\* Simulation.update: the two command buffers in the order of their submission
StepSubmits(step, fieldPass, agentPasses) ==
    <<[label |-> "fieldUpdate", step |-> step, passes |-> <<fieldPass>>],
      [label |-> "agentUpdate", step |-> step, passes |-> agentPasses]>>

\* the two kernels of one tick, taken as a whole: d agents die, b children are
\* written (into freed slots first, then at the high-water mark), u is the uptake
KernelMetrics(m, d, b, u) ==
    [m EXCEPT ![M_ALIVE] = SubU32(AddU32(@, b), d),
              ![M_BIRTHS] = AddU32(@, b),
              ![M_DEATHS] = AddU32(@, d),
              ![M_UPTAKE] = AddU32(@, u)]

KernelBumps(count, alive, d, b) == Max(0, b - (count - alive + d))

\* copyBufferToBuffer(countBuffer -> word 0, metricsBuffer -> words 1 ..)
ReadbackCopy(count, m) ==
    [w \in 0 .. METRICS_U32_COUNT |-> IF w = 0 THEN count ELSE m[w - 1]]

\* a start that requests a frame callback whether or not the loop is running
StartLoops_NoGuard(isRunning, loops) == loops + 1

\* start: if (running) return; ... animationId = requestAnimationFrame(frame)
StartLoops(isRunning, loops) == IF isRunning THEN loops ELSE loops + 1

\* Simulation.start
Start ==
    /\ HostIdle
    /\ running' = TRUE
    /\ stepAccumulator' = IF running THEN stepAccumulator ELSE 0
    /\ frameLoops' = StartLoops(running, frameLoops)
    /\ UNCHANGED <<gpuVars, tickVars, held, auxVars, frameSteps, frameDelta, simulationTime, frameCount,
                   currentAgentCount, currentAliveCount,
                   recentBirths, recentDeaths, recentUptake, evolutionBirths,
                   evolutionDeaths, isReadbackMapped, readbackBuffer, currentBuffer,
                   paused, submitted, born, died, countedBirths, countedDeaths,
                   stepsLeft, inFrame>>

\* Simulation.pause
Pause ==
    /\ HostIdle
    /\ ~paused
    /\ paused' = TRUE
    /\ UNCHANGED <<gpuVars, tickVars, held, auxVars, frameVars, currentAgentCount, currentAliveCount,
                   recentBirths, recentDeaths, recentUptake, evolutionBirths,
                   evolutionDeaths, isReadbackMapped, readbackBuffer, currentBuffer,
                   running, submitted, born, died, countedBirths, countedDeaths,
                   stepsLeft, inFrame>>

\* Simulation.resume
Resume ==
    /\ HostIdle
    /\ paused
    /\ paused' = FALSE
    /\ stepAccumulator' = 0
    /\ UNCHANGED <<gpuVars, tickVars, held, auxVars, frameSteps, frameDelta, loopVars, currentAgentCount, currentAliveCount,
                   recentBirths, recentDeaths, recentUptake, evolutionBirths,
                   evolutionDeaths, isReadbackMapped, readbackBuffer, currentBuffer,
                   running, submitted, born, died, countedBirths, countedDeaths,
                   stepsLeft, inFrame>>

\* Simulation.stop
Stop ==
    /\ HostIdle
    /\ running' = FALSE
    /\ stepAccumulator' = 0
    /\ frameLoops' = 0
    /\ UNCHANGED <<gpuVars, tickVars, held, auxVars, frameSteps, frameDelta, simulationTime, frameCount,
                   currentAgentCount, currentAliveCount,
                   recentBirths, recentDeaths, recentUptake, evolutionBirths,
                   evolutionDeaths, isReadbackMapped, readbackBuffer, currentBuffer,
                   paused, submitted, born, died, countedBirths, countedDeaths,
                   stepsLeft, inFrame>>

\* frame: the callback starts; it takes no step while paused, else as many fixed
\* steps as the accumulated time holds
Frame ==
    /\ HostIdle
    /\ running
    /\ \E k \in 0 .. MaxSteps :
          /\ paused => k = 0
          /\ stepsLeft' = k
    /\ inFrame' = TRUE
    /\ UNCHANGED <<gpuVars, tickVars, held, auxVars, frameVars, currentAgentCount, currentAliveCount,
                   recentBirths, recentDeaths, recentUptake, evolutionBirths,
                   evolutionDeaths, isReadbackMapped, readbackBuffer, currentBuffer,
                   running, paused, submitted, born, died, countedBirths,
                   countedDeaths>>

\* a busy test that never finds the readback buffer busy
ReadbackBusy_Never == FALSE

\* the test of isReadbackMapped in AgentSystem.update and in updateCounters
ReadbackBusy == isReadbackMapped

\* Simulation.update: one fixed step of the frame callback
SimulationUpdate ==
    /\ inFrame
    /\ stepsLeft > 0
    /\ \E d \in 0 .. Min(currentAgentCount, metrics[M_ALIVE]), b \in 0 .. MaxAgents,
          u \in 0 .. MaxUptake :
          /\ b <= Min(currentAgentCount, metrics[M_ALIVE]) - d
          /\ agentCount + KernelBumps(agentCount, metrics[M_ALIVE], d, b) <= MaxAgents
          /\ born + b <= MaxBorn
          /\ died + d <= MaxBorn
          /\ metrics[M_UPTAKE] + u <= MaxUptake
          /\ metrics' = KernelMetrics(metrics, d, b, u)
          /\ agentCount' = AddU32(agentCount, KernelBumps(agentCount, metrics[M_ALIVE], d, b))
          /\ born' = born + b
          /\ died' = died + d
    /\ currentBuffer' = FieldSwap(currentBuffer)
    /\ submitted' = submitted \o
          StepSubmits(stepsLeft, FieldUpdatePass(currentBuffer),
                      AgentPasses(currentBuffer', currentAgentCount, ~ReadbackBusy))
    /\ readbackBuffer' = IF ~ReadbackBusy
                         THEN ReadbackCopy(agentCount', metrics')
                         ELSE readbackBuffer
    /\ readbackStale' = IF ~ReadbackBusy THEN FALSE ELSE readbackStale
    /\ stepsLeft' = stepsLeft - 1
    /\ UNCHANGED <<agents, freeList, tickVars, held, auxRest, frameVars, currentAgentCount, currentAliveCount,
                   recentBirths, recentDeaths, recentUptake, evolutionBirths,
                   evolutionDeaths, isReadbackMapped, running, paused, countedBirths,
                   countedDeaths, inFrame>>

\* frame: the steps are taken; render and requestAnimationFrame end the callback
FrameEnd ==
    /\ inFrame
    /\ stepsLeft = 0
    /\ inFrame' = FALSE
    /\ submitted' = <<>>
    /\ UNCHANGED <<gpuVars, tickVars, held, auxVars, frameVars, currentAgentCount, currentAliveCount,
                   recentBirths, recentDeaths, recentUptake, evolutionBirths,
                   evolutionDeaths, isReadbackMapped, readbackBuffer, currentBuffer,
                   running, paused, born, died, countedBirths, countedDeaths,
                   stepsLeft>>

\* updateCounters up to its await: a poll that finds the buffer busy returns, else
\* it sets the busy flag and asks for the mapping
UpdateCountersStart ==
    /\ HostIdle
    /\ ~ReadbackBusy
    /\ isReadbackMapped' = TRUE
    /\ readbackMaps' = readbackMaps + 1
    /\ UNCHANGED <<gpuVars, tickVars, held, frameVars, queryMapping, queryInFlight, querySubmits,
                   queryReturn, probeDirty, probeCell, probeReadVars, fnInput, fnOutput, readbackStale, currentAgentCount, currentAliveCount,
                   recentBirths, recentDeaths, recentUptake, evolutionBirths,
                   evolutionDeaths, readbackBuffer, currentBuffer, running, paused,
                   submitted, born, died, countedBirths, countedDeaths, stepsLeft,
                   inFrame>>

\* Math.min(x, maxAgents) on a u32
CapAtMaxAgents(x) == IF LessU32(x, MaxAgents) THEN x ELSE MaxAgents

\* updateCounters after its await: read the mapped buffer, unmap, drain the
\* accumulators, clear the busy flag
UpdateCountersResolve ==
    /\ HostIdle
    /\ isReadbackMapped
    /\ LET data == readbackBuffer
       IN  /\ countedBirths + data[2] <= MaxCounted
           /\ countedDeaths + data[3] <= MaxCounted
           /\ currentAgentCount' = CapAtMaxAgents(data[0])
           /\ currentAliveCount' = CapAtMaxAgents(data[1])
           /\ recentBirths' = data[2]
           /\ recentDeaths' = data[3]
           /\ recentUptake' = data[4]
           /\ evolutionBirths' = IF data[2] > 0 THEN evolutionBirths + data[2]
                                               ELSE evolutionBirths
           /\ evolutionDeaths' = IF data[3] > 0 THEN evolutionDeaths + data[3]
                                               ELSE evolutionDeaths
           /\ countedBirths' = countedBirths + data[2]
           /\ countedDeaths' = countedDeaths + data[3]
    /\ metrics' = MetricsDrain(metrics)
    /\ isReadbackMapped' = FALSE
    /\ readbackMaps' = readbackMaps - 1
    /\ UNCHANGED <<agents, agentCount, freeList, tickVars, held, frameVars, queryMapping, queryInFlight, querySubmits,
                   queryReturn, probeDirty, probeCell, probeReadVars, fnInput, fnOutput, readbackStale, readbackBuffer,
                   currentBuffer, running, paused, submitted, born, died, stepsLeft,
                   inFrame>>

\* Simulation.resetSimulation: AgentSystem.reset with config.initialAgentCount = n,
\* then FieldSystem.reset
ResetSimulation ==
    /\ HostIdle
    /\ \E n \in 0 .. MaxAgents :
          /\ agents' \in SeedArrays(n)
          /\ agentCount' = n
          /\ metrics' = WriteBuffer(metrics, 0, [i \in 1 .. METRICS_U32_COUNT |->
                                                    MetricsInit(n)[i - 1]])
          /\ freeList' = FreeListInit
          /\ currentAgentCount' = n
          /\ currentAliveCount' = n
    /\ recentBirths' = 0
    /\ recentDeaths' = 0
    /\ recentUptake' = 0
    /\ evolutionBirths' = 0
    /\ evolutionDeaths' = 0
    /\ currentBuffer' = 0
    /\ readbackStale' = TRUE
    /\ simulationTime' = 0
    /\ UNCHANGED <<tickVars, held, auxRest, stepAccumulator, frameSteps, frameDelta, frameCount,
                   frameLoops, isReadbackMapped, readbackBuffer, running, paused,
                   submitted, born, died, countedBirths, countedDeaths, stepsLeft,
                   inFrame>>

NextHost ==
    \/ Start
    \/ Pause
    \/ Resume
    \/ Frame
    \/ SimulationUpdate
    \/ FrameEnd
    \/ UpdateCountersStart
    \/ UpdateCountersResolve
    \/ ResetSimulation

SpecHost == Init /\ [][NextHost]_vars

(***************************************************************************)
(* SpecFrame: the time bookkeeping of the frame callback of the simulation *)
(* (simulation.ts, frame).  Times are integers, TimeUnits to the second;   *)
(* config.stepScale is in tenths.  The steps a frame runs are counted, the *)
(* GPU work of each step is SpecHost's.                                    *)
(***************************************************************************)
TimeUnits == 3000
MAX_DELTA_TIME == 150
FIXED_STEP_DT == 50
DefaultDelta == 48
maxStepsThisFrame == 240

\* (timestamp - lastFrameTime) / 1000 of a frame callback
RawDeltas == {-TimeUnits, 0, 20, FIXED_STEP_DT, MAX_DELTA_TIME, MAX_DELTA_TIME + 1,
              TimeUnits}
\* config.stepScale in tenths
StepScales == {-10, 0, 5, 10, 25, 1000}

\* the step loop without its cap on the steps of one frame
RunSteps_NoCap(acc, steps) == <<acc % FIXED_STEP_DT, steps + acc \div FIXED_STEP_DT>>

\* while (stepAccumulator >= FIXED_STEP_DT && steps < maxStepsThisFrame) { ...;
\* stepAccumulator -= FIXED_STEP_DT; steps++ }: the loop body runs
\* min(acc / FIXED_STEP_DT, maxStepsThisFrame - steps) times; the accumulator and the
\* step count it ends with
RunSteps(acc, steps) ==
    LET k == Min(Max(0, acc) \div FIXED_STEP_DT, maxStepsThisFrame - steps)
    IN  <<acc - k * FIXED_STEP_DT, steps + k>>

\* frame: the whole callback; lastFrameTime is whether an earlier frame left its
\* timestamp, finite whether config.stepScale is a finite number
FrameTimed ==
    /\ HostIdle
    /\ running
    /\ frameLoops > 0
    /\ \E lastFrameTime \in BOOLEAN, raw \in RawDeltas, finite \in BOOLEAN, scale \in StepScales :
          LET deltaTime == Max(0, Min(MAX_DELTA_TIME, IF lastFrameTime THEN raw ELSE DefaultDelta))
              stepScale == IF finite THEN scale ELSE 10
              ran == RunSteps(stepAccumulator + (deltaTime * Max(0, stepScale)) \div 10, 0)
          IN  /\ frameDelta' = deltaTime
              /\ frameSteps' = IF paused THEN 0 ELSE ran[2]
              /\ stepAccumulator' = IF paused THEN stepAccumulator
                                    ELSE Min(ran[1], FIXED_STEP_DT)
              /\ simulationTime' = IF paused THEN simulationTime
                                   ELSE (simulationTime + ran[2]) % SimTimeWrap
    /\ frameCount' = (frameCount + 1) % FrameWrap
    /\ frameLoops' = frameLoops
    /\ UNCHANGED <<gpuVars, tickVars, held, auxVars, currentAgentCount, hostVars>>

NextFrame ==
    \/ Start
    \/ Stop
    \/ Pause
    \/ Resume
    \/ FrameTimed

SpecFrame == InitGuards /\ [][NextFrame]_vars

(***************************************************************************)
(* SpecQuery: the point-inspection queries of the simulation               *)
(* (readFieldCell, readAgent, pickNearestAgentAtClient and the probe poll  *)
(* updateProbe).  Each is an async function: the call runs up to its       *)
(* await of mapAsync, its continuation runs when the mapping resolves.     *)
(***************************************************************************)
baseVars == <<gpuVars, tickVars, held, currentAgentCount, hostVars, frameVars, readbackMaps,
              readbackStale>>

\* a busy guard that never rejects a call
QueryBusy_Never(q) == FALSE

\* the busy guard at the head of each query function
QueryBusy(q) == queryMapping[q]

\* a call that returns null (or returns, for the probe) before it touches the GPU
QueryRejected(q) ==
    /\ queryReturn' = [queryReturn EXCEPT ![q] = "null"]
    /\ UNCHANGED <<queryMapping, queryInFlight, querySubmits>>

\* a call that sets its flag, submits its copy and awaits the mapping
QueryIssued(q) ==
    /\ querySubmits[q] < MaxQueries
    /\ queryMapping' = [queryMapping EXCEPT ![q] = TRUE]
    /\ querySubmits' = [querySubmits EXCEPT ![q] = @ + 1]
    /\ queryInFlight' = [queryInFlight EXCEPT ![q] = @ + 1]
    /\ queryReturn' = [queryReturn EXCEPT ![q] = "pending"]

\* readFieldCell(x, y), up to its await
ReadFieldCell ==
    /\ IF QueryBusy("fieldCell") THEN QueryRejected("fieldCell")
                                 ELSE QueryIssued("fieldCell")
    /\ UNCHANGED <<baseVars, probeDirty, probeCell, probeReadVars, fnInput, fnOutput>>

\* readAgent(index), up to its await
ReadAgent ==
    /\ \E index \in -1 .. MaxAgents :
          IF QueryBusy("agentSingle") THEN QueryRejected("agentSingle")
          ELSE IF index < 0 \/ index >= currentAgentCount THEN QueryRejected("agentSingle")
          ELSE QueryIssued("agentSingle")
    /\ UNCHANGED <<baseVars, probeDirty, probeCell, probeReadVars, fnInput, fnOutput>>

\* pickNearestAgentAtClient(clientX, clientY, maxPixels), up to its await
PickNearestAgentAtClient ==
    /\ IF QueryBusy("agentPick") THEN QueryRejected("agentPick")
       ELSE IF currentAgentCount = 0 THEN QueryRejected("agentPick")
       ELSE QueryIssued("agentPick")
    /\ UNCHANGED <<baseVars, probeDirty, probeCell, probeReadVars, fnInput, fnOutput>>

\* setProbeCell(x, y) with a cell other than the current one (a call with the
\* current cell returns at once); a call that makes the cell dirty needs one more
\* probe read, which has to fit the bound on the reads of a run
SetProbeCell ==
    /\ probeDirty \/ querySubmits["probe"] < MaxQueries
    /\ \E c \in 0 .. 1 :
          /\ c # probeCell
          /\ probeCell' = c
    /\ probeDirty' = TRUE
    /\ UNCHANGED <<baseVars, queryMapping, queryInFlight, querySubmits, queryReturn,
                   probeReadVars, fnInput, fnOutput>>

\* the three early returns of updateProbe
ProbeSkips == ~probeDirty \/ QueryBusy("probe") \/ probeCell < 0

\* a poll that clears probeDirty before its early returns
ProbeDirtyAfterPoll_ClearedFirst(skipped) == FALSE

\* probeDirty after one call of updateProbe: only a poll that goes on to read
\* clears it
ProbeDirtyAfterPoll(skipped) == IF skipped THEN probeDirty ELSE FALSE

\* updateProbe, up to its await, called by the 200 ms interval that start() sets
\* up and stop() clears (it exists exactly while running): it returns at once
\* unless the cell is dirty, no probe read is in flight and a cell has been set,
\* else it copies the five values of the current probe cell
UpdateProbe ==
    /\ running
    /\ IF ProbeSkips
       THEN QueryRejected("probe") /\ UNCHANGED probeCopied
       ELSE QueryIssued("probe") /\ probeCopied' = probeCell
    /\ probeDirty' = ProbeDirtyAfterPoll(ProbeSkips)
    /\ UNCHANGED <<baseVars, probeCell, lastProbeData, fnInput, fnOutput>>

\* the outcomes of a read: the values, null (readAgent and the pick, when no
\* living agent was found), or an exception thrown by mapAsync or after it
QueryOutcomes(q) ==
    IF q \in {"agentSingle", "agentPick"} THEN {"data", "null", "error"}
                                           ELSE {"data", "error"}

\* a busy flag that a failed read leaves set
FlagAfterSettle_KeptOnError(r) == r = "error"

\* the finally block of each query function: the flag is cleared however the
\* read ended
FlagAfterSettle(r) == FALSE

\* the continuation of query q after its mapAsync settled: read, unmap (the probe
\* stores the values with the coordinates probeCellX / probeCellY as they are
\* now), clear the busy flag
QueryResolved(q) ==
    /\ queryInFlight[q] > 0
    /\ queryInFlight' = [queryInFlight EXCEPT ![q] = @ - 1]
    /\ \E r \in QueryOutcomes(q) :
          /\ queryMapping' = [queryMapping EXCEPT ![q] = FlagAfterSettle(r)]
          /\ queryReturn' = [queryReturn EXCEPT ![q] = r]
          /\ lastProbeData' = IF q = "probe" /\ r = "data"
                              THEN [x |-> probeCell, valuesOf |-> probeCopied]
                              ELSE lastProbeData
    /\ probeCopied' = IF q = "probe" THEN -1 ELSE probeCopied
    /\ UNCHANGED <<baseVars, querySubmits, probeDirty, probeCell, fnInput, fnOutput>>

QueryResolve == \E q \in QueryTypes : QueryResolved(q)

NextQuery ==
    \/ Start
    \/ ReadFieldCell
    \/ ReadAgent
    \/ PickNearestAgentAtClient
    \/ SetProbeCell
    \/ UpdateProbe
    \/ QueryResolve

SpecQuery == Init /\ [][NextQuery]_vars

\* updateCounters when mapAsync or the code after it throws: the finally block
\* clears the busy flag, the counters and the metrics words stay as they are
UpdateCountersFail ==
    /\ HostIdle
    /\ isReadbackMapped
    /\ isReadbackMapped' = FlagAfterSettle("error")
    /\ readbackMaps' = readbackMaps - 1
    /\ UNCHANGED <<gpuVars, tickVars, held, frameVars, queryMapping, queryInFlight, querySubmits,
                   queryReturn, probeDirty, probeCell, probeReadVars, fnInput, fnOutput,
                   readbackStale, currentAgentCount, currentAliveCount,
                   recentBirths, recentDeaths, recentUptake, evolutionBirths,
                   evolutionDeaths, readbackBuffer, currentBuffer, running, paused,
                   submitted, born, died, countedBirths, countedDeaths, stepsLeft,
                   inFrame>>

(***************************************************************************)
(* SpecGuards: every read that is protected by a busy flag, the four       *)
(* point-inspection queries and the counters poll, with reads that fail.   *)
(***************************************************************************)
NextGuards ==
    \/ NextQuery
    \/ UpdateCountersStart
    \/ UpdateCountersResolve
    \/ UpdateCountersFail

SpecGuards == InitGuards /\ [][NextGuards]_vars

(***************************************************************************)
(* SpecProbe: the probe alone, with start() and stop().  SpecProbeLive     *)
(* adds what the program's scheduling provides: while the simulation is    *)
(* started the 200 ms interval keeps calling updateProbe, and a read in   *)
(* flight settles.                                                         *)
(***************************************************************************)
NextProbe ==
    \/ Start
    \/ Stop
    \/ SetProbeCell
    \/ UpdateProbe
    \/ QueryResolved("probe")

SpecProbe == Init /\ [][NextProbe]_vars

SpecProbeLive ==
    /\ SpecProbe
    /\ WF_vars(UpdateProbe)
    /\ WF_vars(QueryResolved("probe"))

(***************************************************************************)
(* SpecKernelFn: the pure computations of the kernels and of the seeding   *)
(* code, each applied once to an input drawn from a bounded set.           *)
(***************************************************************************)
fnRest == <<baseVars, queryMapping, queryInFlight, querySubmits, queryReturn,
            probeDirty, probeCell, probeReadVars>>

\* inputs of the mode decision: agent.mode, currentDanger, agent.energy,
\* agent.reproThreshold, agent.cooldown, currentRes, expectedGain
ModeInputs ==
    [kind : {"mode"}, agentMode : MODE_EXPLORE .. MODE_REPRODUCE, danger : DangerLevels,
     energy : 0 .. MaxEnergy, reproThreshold : {ReproThreshold - 1, ReproThreshold},
     cooldown : 0 .. ReproCooldown, res : ResourceLevels, gain : GainLevels]

\* length of the offset of a child from its parent, in cells
ChildOffset == 5

\* WGSL clamp(e, low, high) = min(max(e, low), high)
Clamp(e, low, high) == Min(Max(e, low), high)

\* the genetic traits of struct Agent; trait values are in thousandths
TraitNames ==
    {"efficiency", "absorption", "metabolism", "moveCost", "activity", "agility",
     "senseRange", "aggression", "evasion", "sociality", "reproThreshold",
     "reproCooldown"}

GENETIC_RANGES ==
    [efficiency     |-> [min |-> 100,   max |-> 2000,   default |-> 1000],
     absorption     |-> [min |-> 100,   max |-> 2000,   default |-> 1000],
     metabolism     |-> [min |-> 10,    max |-> 200,    default |-> 50],
     moveCost       |-> [min |-> 1,     max |-> 50,     default |-> 10],
     activity       |-> [min |-> 500,   max |-> 3000,   default |-> 1000],
     agility        |-> [min |-> 500,   max |-> 2000,   default |-> 1000],
     senseRange     |-> [min |-> 5000,  max |-> 50000,  default |-> 20000],
     aggression     |-> [min |-> 0,     max |-> 1000,   default |-> 300],
     evasion        |-> [min |-> 0,     max |-> 1000,   default |-> 500],
     sociality      |-> [min |-> 0,     max |-> 1000,   default |-> 500],
     reproThreshold |-> [min |-> 50000, max |-> 200000, default |-> 100000],
     reproCooldown  |-> [min |-> 10000, max |-> 100000, default |-> 30000]]

\* processReproduction: the width of the mutation of each trait, mutationRate times
\* the trait's factor, in thousandths
MutationScale ==
    [efficiency |-> 100, absorption |-> 100, metabolism |-> 50, moveCost |-> 20,
     activity |-> 100, agility |-> 100, senseRange |-> 1000, aggression |-> 100,
     evasion |-> 100, sociality |-> 100, reproThreshold |-> 1000, reproCooldown |-> 500]

\* processReproduction: a clamp that leaves reproCooldown as mutated
TraitClamp_NoCooldownClamp ==
    [efficiency     |-> <<100, 2000>>,    absorption    |-> <<100, 2000>>,
     metabolism     |-> <<10, 200>>,      moveCost      |-> <<1, 50>>,
     activity       |-> <<500, 3000>>,    agility       |-> <<500, 2000>>,
     senseRange     |-> <<5000, 50000>>,  aggression    |-> <<0, 1000>>,
     evasion        |-> <<0, 1000>>,      sociality     |-> <<0, 1000>>,
     reproThreshold |-> <<50000, 200000>>, reproCooldown |-> <<-1000000, 1000000>>]

\* processReproduction: the bounds of the clamp of each trait
TraitClamp ==
    [efficiency     |-> <<100, 2000>>,    absorption    |-> <<100, 2000>>,
     metabolism     |-> <<10, 200>>,      moveCost      |-> <<1, 50>>,
     activity       |-> <<500, 3000>>,    agility       |-> <<500, 2000>>,
     senseRange     |-> <<5000, 50000>>,  aggression    |-> <<0, 1000>>,
     evasion        |-> <<0, 1000>>,      sociality     |-> <<0, 1000>>,
     reproThreshold |-> <<50000, 200000>>, reproCooldown |-> <<10000, 100000>>]

\* Math.random() * x for the draw r / RandSteps
RandomTimes(r, x) == (r * x) \div RandSteps

\* createRandomGenetics: min + Math.random() * (max - min) for every trait
createRandomGenetics(rnd) ==
    [k \in TraitNames |->
        GENETIC_RANGES[k].min
            + RandomTimes(rnd[k], GENETIC_RANGES[k].max - GENETIC_RANGES[k].min)]

\* the record the seeding loop writes for one agent (vel is left out); energy in
\* thousandths
SeedRecord(rx, ry, re, rnd) ==
    [pos |-> <<RandomTimes(rx, GridSize * PosScale), RandomTimes(ry, GridSize * PosScale)>>,
     energy |-> 50000 + RandomTimes(re, 50000),
     mode |-> MODE_EXPLORE, stress |-> 0, cooldown |-> 0,
     traits |-> createRandomGenetics(rnd),
     alive |-> 1, age |-> 0, generation |-> 0]

\* the largest coordinate of the boundary clamp: f32(params.gridSize) - 1.0
GridMax == (GridSize - 1) * PosScale

\* updateAgents: agent.pos += agent.vel * (currentTerrain * dt * 20.0) and the
\* boundary clamp (delta: the displacement of the tick)
MovePos(pos, delta) ==
    <<Clamp(pos[1] + delta[1], 0, GridMax), Clamp(pos[2] + delta[2], 0, GridMax)>>

\* a cell index computed from the coordinates as they are
fieldIdx_NoClamp(x, y) == (y \div PosScale) * GridSize + (x \div PosScale)

\* fieldIdx(x, y): the coordinates are clamped to [0, gridSize - 1] and truncated
fieldIdx(x, y) ==
    (Clamp(y, 0, GridMax) \div PosScale) * GridSize + (Clamp(x, 0, GridMax) \div PosScale)

\* u32(uptakeAmount * 1000000.0) for an amount in units of 1e-9
ToMicro(amount) == amount \div 1000

\* the eight sample directions of sense, 45 degrees apart; the components of a
\* diagonal are rounded up to 1
Rays == {<<1, 0>>, <<1, 1>>, <<0, 1>>, <<-1, 1>>, <<-1, 0>>, <<-1, -1>>, <<0, -1>>, <<1, -1>>}

\* the memory a thread of updateAgents touches: the agent records it loads, the
\* cells of the fields it reads (sense rays, the cell of agent.pos before and after
\* the move) and the cells of the accumulators it adds to
UpdateAgentsCells(in) ==
    IF ~LessU32(in.idx, in.agentCount)
    THEN [records |-> {}, reads |-> {}, writes |-> {}]
    ELSE IF in.alive = 0
    THEN [records |-> {in.idx}, reads |-> {}, writes |-> {}]
    ELSE LET moved == MovePos(in.pos, in.delta)
         IN  [records |-> {in.idx},
              reads |-> { fieldIdx(in.pos[1] + ray[1] * in.senseRange,
                                   in.pos[2] + ray[2] * in.senseRange) : ray \in Rays }
                        \cup {fieldIdx(in.pos[1], in.pos[2]), fieldIdx(moved[1], moved[2])},
              writes |-> {fieldIdx(moved[1], moved[2])}]

\* threads inside and outside params.agentCount, dead and living records, positions
\* inside the grid and up to a child's offset outside it, sense ranges from 0 to
\* beyond the grid
AccessInputs ==
    LET coords == {-ChildOffset * PosScale, 0, GridMax, GridSize * PosScale - 1,
                   GridMax + ChildOffset * PosScale}
    IN  [kind : {"access"}, idx : 0 .. MaxAgents, agentCount : 0 .. MaxAgents,
         alive : {0, 1}, pos : coords \X coords,
         delta : {<<0, 0>>, <<PosScale, 0>>, <<-PosScale, -PosScale>>},
         senseRange : {0, PosScale, ChildOffset * PosScale}]

\* 2^32 micro units, the range of an atomic<u32> accumulator, in units of 1000 micro
\* units (the unit of the amounts below)
U32Range == 4294967

\* the adds to metrics.uptakeMicro between two drains: the agents in INTAKE mode
\* (from one to the default maxAgentCount), the amount each adds per tick (0.004
\* and 0.022 energy units: default and largest traits at the default config) and
\* the ticks between two polls (30 in 500 ms at 60 steps per second)
AccumInputs ==
    [kind : {"accum"}, agents : {1, 500, 30000, 600000}, amount : {0, 4, 22},
     ticks : {1, 2, 30}]

\* values of randomDir(seed): unit vectors
Dirs == {<<1, 0>>, <<0, 1>>, <<-1, 0>>, <<0, -1>>}

\* a child whose cooldown is its own, mutated, reproCooldown trait
MakeChild_MutatedCooldown(parent, dir, h) ==
    LET traits == [k \in TraitNames |->
                      Clamp(parent.traits[k] + ((h[k] - 500) * MutationScale[k]) \div 1000,
                            TraitClamp[k][1], TraitClamp[k][2])]
    IN  [pos |-> <<parent.pos[1] + dir[1] * ChildOffset * PosScale,
                   parent.pos[2] + dir[2] * ChildOffset * PosScale>>,
         energy |-> ChildEnergy(parent.energy),
         mode |-> MODE_EXPLORE, stress |-> 0,
         cooldown |-> traits.reproCooldown,
         traits |-> traits,
         alive |-> 1, age |-> 0, generation |-> AddU32(parent.generation, 1)]

\* the child record processReproduction builds from the parent record it read
\* (dir: randomDir(seed), h[k]: the hash of trait k in thousandths; vel left out)
MakeChild(parent, dir, h) ==
    [pos |-> <<parent.pos[1] + dir[1] * ChildOffset * PosScale,
               parent.pos[2] + dir[2] * ChildOffset * PosScale>>,
     energy |-> ChildEnergy(parent.energy),
     mode |-> MODE_EXPLORE, stress |-> 0,
     cooldown |-> parent.traits.reproCooldown,
     traits |-> [k \in TraitNames |->
                    Clamp(parent.traits[k] + ((h[k] - 500) * MutationScale[k]) \div 1000,
                          TraitClamp[k][1], TraitClamp[k][2])],
     alive |-> 1, age |-> 0, generation |-> AddU32(parent.generation, 1)]

\* draws of Math.random() / hash(): the ends and the middle of the range
RandLevels == {0, RandSteps \div 2, RandSteps - 1}
HashLevels == {0, 500, 1000}

\* one draw per trait: all equal but one
TraitDraws(levels) ==
    { [k \in TraitNames |-> IF k = j THEN r ELSE d] :
        j \in TraitNames, r \in levels, d \in levels }

\* inputs of the seeding loop
SeedInputs ==
    [kind : {"seed"}, rx : RandLevels, ry : RandLevels, re : RandLevels,
     rnd : TraitDraws(RandLevels)]

\* inputs of the movement of updateAgents: positions inside and outside the grid,
\* displacements within a cell and of one cell, and the uptakeAmount of an agent in
\* INTAKE mode in units of 1e-9
MoveInputs ==
    LET coords == {-ChildOffset * PosScale, 0, GridMax, GridSize * PosScale - 1,
                   GridMax + ChildOffset * PosScale}
        deltas == {-PosScale, 0, 1, PosScale}
    IN  [kind : {"move"}, pos : coords \X coords, delta : deltas \X deltas,
         uptake : {0, 500, 2000000}]

\* a parent as updateAgents leaves it after a reproduction
DefaultParent ==
    [pos |-> <<0, 0>>, energy |-> 50000, mode |-> MODE_REPRODUCE, stress |-> 0,
     cooldown |-> GENETIC_RANGES.reproCooldown.default,
     traits |-> [k \in TraitNames |-> GENETIC_RANGES[k].default],
     alive |-> 1, age |-> 1, generation |-> 0]

\* The record a thread of processReproduction holds after a read of its slot that
\* raced with the write of a child into it: alive = 1 of the child, mode and energy
\* of the replaced record, an agent that died of its costs in a tick in which it
\* had chosen REPRODUCE (ReproParent, Mixtures).
TornParent == [DefaultParent EXCEPT !.energy = 0]

\* parent records of processReproduction: positions at the corners of the grid,
\* energies, generations, and each trait at and beyond the ends of its range
ChildParents ==
    { [DefaultParent EXCEPT !.pos = <<x, y>>] : x \in {0, GridMax}, y \in {0, GridMax} }
    \cup { [DefaultParent EXCEPT !.energy = e] : e \in {1, 25000, 100000} }
    \cup { [DefaultParent EXCEPT !.generation = g] : g \in {1, 2} }
    \cup UNION { { [DefaultParent EXCEPT !.traits[k] = v] :
                      v \in {0, GENETIC_RANGES[k].min, GENETIC_RANGES[k].max,
                             2 * GENETIC_RANGES[k].max} } : k \in TraitNames }
    \cup {TornParent}

ChildInputs ==
    [kind : {"child"}, parent : ChildParents, dir : Dirs,
     h : { [k \in TraitNames |-> v] : v \in HashLevels }]

\* the product of two values held in thousandths
MulMilli(a, b) == (a * b) \div 1000

\* a cell index that takes the remainders as they are: the remainder of a negative
\* coordinate is negative
idx_NoWrap(x, y) ==
    LET rem(a, b) == IF a >= 0 THEN a % b ELSE -((-a) % b)
    IN  rem(y, GridSize) * GridSize + rem(x, GridSize)

\* idx of the field kernel: ((x % size) + size) % size in both axes; % of WGSL
\* truncates towards zero (rem)
idx(x, y) ==
    LET rem(a, b) == IF a >= 0 THEN a % b ELSE -((-a) % b)
        wx == rem(rem(x, GridSize) + GridSize, GridSize)
        wy == rem(rem(y, GridSize) + GridSize, GridSize)
    IN  wy * GridSize + wx

\* the cells laplacianRes / laplacianPher read for cell (x, y)
LaplacianCells(x, y) ==
    [c |-> idx(x, y), l |-> idx(x - 1, y), r |-> idx(x + 1, y),
     u |-> idx(x, y - 1), d |-> idx(x, y + 1)]

\* coordinates from one cell before the grid to one cell after it
WrapInputs == [kind : {"wrap"}, x : -1 .. GridSize, y : -1 .. GridSize]

\* laplacianRes / laplacianPher: l + r + u + d - 4.0 * c
Laplacian(c, nb) == nb[1] + nb[2] + nb[3] + nb[4] - 4 * c

\* a pheromone update that stores the value without the clamp
UpdatePheromone_NoClamp(c, nb, diffusionCoeff, pheromoneDecay, dt) ==
    LET pher1 == c + MulMilli(MulMilli(Laplacian(c, nb), diffusionCoeff) * 2, dt)
    IN  MulMilli(pher1, 1000 - MulMilli(pheromoneDecay, dt))

\* a generation whose global base term does not scale with the rate
ResourceGeneration_BaseRate(resourceGenRate, patches) ==
    MulMilli(resourceGenRate, patches) + 100

\* resourceGeneration: the rate times the summed patch weights (1 - dist / radius)
\* of the patches that hold the cell, plus the global base of a tenth of the rate
ResourceGeneration(resourceGenRate, patches) ==
    MulMilli(resourceGenRate, patches) + MulMilli(resourceGenRate, 100)

\* updateFields, resource: diffusion scaled by terrain, decay, generation, clamp
\* (spawn: the value of resourceGeneration(x, y, time)); all values in thousandths
UpdateResource(c, nb, terrainFactor, diffusionCoeff, resourceDecay, spawn, dt) ==
    LET diffusion == MulMilli(MulMilli(Laplacian(c, nb), diffusionCoeff), terrainFactor)
        res1 == c + MulMilli(diffusion, dt)
        res2 == MulMilli(res1, 1000 - MulMilli(resourceDecay, dt))
        res3 == res2 + MulMilli(spawn, dt)
    IN  Clamp(res3, 0, 1000)

\* updateFields, pheromone: diffusion at twice the coefficient, decay, clamp
UpdatePheromone(c, nb, diffusionCoeff, pheromoneDecay, dt) ==
    LET pher1 == c + MulMilli(MulMilli(Laplacian(c, nb), diffusionCoeff) * 2, dt)
        pher2 == MulMilli(pher1, 1000 - MulMilli(pheromoneDecay, dt))
    IN  Clamp(pher2, 0, 1000)

\* the danger update, as the specification words it (its kernel is not part of the
\* sources at hand): diffusion and decay at the field's own rate, plus a fraction
\* of the resource consumed in the cell this tick; result clamped to [0,1]
UpdateDanger(c, nb, diffusionCoeff, dangerDecay, dangerFromConsumption, consumed, dt) ==
    LET dng1 == c + MulMilli(MulMilli(Laplacian(c, nb), diffusionCoeff), dt)
        dng2 == MulMilli(dng1, 1000 - MulMilli(dangerDecay, dt))
        dng3 == dng2 + MulMilli(dangerFromConsumption, consumed)
    IN  Clamp(dng3, 0, 1000)

\* inputs of updateFields for one cell: the cell and its four neighbours (the same
\* for the three fields), terrain factor, parameters from none to far beyond their
\* defaults, the summed patch weights of the cell, the two step lengths of
\* timeScale 1 and 10
FieldInputs ==
    [kind : {"field"}, c : {0, 500, 1000},
     nb : {<<0, 0, 0, 0>>, <<1000, 1000, 1000, 1000>>, <<0, 1000, 0, 500>>},
     terrain : {0, 1000}, diffusionCoeff : {0, 150, 100000},
     resourceDecay : {0, 10, 100000}, pheromoneDecay : {0, 100, 100000},
     dangerDecay : {50, 100000}, resourceGenRate : {0, 20, 100000}, patches : {0, 1000},
     dangerFromConsumption : {700}, consumed : {0, 2000}, dt : {16, 166}]

\* section 6 of updateAgents, reproduction branch, on a full agent record
LifecycleReproduce(agent) ==
    [agent EXCEPT !.energy = HalfEnergy(agent.energy),
                  !.cooldown = agent.traits.reproCooldown]

\* agents that reach the lifecycle test in REPRODUCE mode with cooldown 0 (energy
\* after the costs of the tick, in thousandths, multiples of 10), and the random
\* direction of the child
SplitInputs ==
    [kind : {"split"},
     agent : { [DefaultParent EXCEPT !.energy = e, !.cooldown = 0, !.generation = g,
                                     !.traits.reproCooldown = c] :
                 e \in {10, 20, 50000, 123450, 200000}, g \in {0, 1},
                 c \in {GENETIC_RANGES.reproCooldown.min,
                        GENETIC_RANGES.reproCooldown.max} },
     dir : Dirs, h : { [k \in TraitNames |-> v] : v \in HashLevels }]

\* triggerFileLoad: the text of the chosen file and the live configs.  A config is
\* abstracted to where its values come from: "default", "imported" (values of the
\* right types read from the file) or "garbage" (values of the wrong types read from
\* the file).  A part of the file is "absent", "falsy" (null, 0, ""), "wellFormed"
\* or "wrongType" (an object whose values have the wrong types).
ConfigParts == {"absent", "falsy", "wellFormed", "wrongType"}
ImportInputs ==
    [kind : {"import"}, text : {"notJson", "null", "object"},
     simulation : ConfigParts, render : ConfigParts,
     config : {"default", "imported"}, renderConfig : {"default", "imported"}]

\* Object.assign(target, part): every own property of part is copied, whatever its
\* type
ObjectAssign(target, part) ==
    IF part = "wellFormed" THEN "imported" ELSE "garbage"

\* the onchange handler of triggerFileLoad: JSON.parse, updateConfig,
\* updateRenderConfig; the catch block alerts
LoadConfig(in) ==
    IF in.text = "notJson" \/ in.text = "null"
    THEN [config |-> in.config, renderConfig |-> in.renderConfig, alert |-> TRUE]
    ELSE [config |-> IF in.simulation \in {"wellFormed", "wrongType"}
                     THEN ObjectAssign(in.config, in.simulation) ELSE in.config,
          renderConfig |-> IF in.render \in {"wellFormed", "wrongType"}
                           THEN ObjectAssign(in.renderConfig, in.render)
                           ELSE in.renderConfig,
          alert |-> FALSE]

\* the parameters of SimulationConfig followed here, in thousandths: one the field
\* system uploads, one the agent system uploads, and timeScale, which both use
ConfigKeys == {"diffusionRate", "energyCostScale", "timeScale"}

DEFAULT_CONFIG == [diffusionRate |-> 150, energyCostScale |-> 8000, timeScale |-> 1000]

\* the calls on the simulation: updateConfig({key: value}), setTimeScale(value),
\* resetSimulation()
ConfigCalls ==
    [op : {"updateConfig"}, key : ConfigKeys, value : {0, 500}]
        \cup [op : {"setTimeScale"}, key : {"timeScale"}, value : {-1000, 2000, 20000}]
        \cup [op : {"resetSimulation"}, key : {"timeScale"}, value : {0}]

ConfigInputs ==
    [kind : {"config"},
     calls : UNION { [1 .. n -> ConfigCalls] : n \in 0 .. MaxCalls }]

\* createSimulation: config = { ...DEFAULT_CONFIG } is object 1 of the heap; the
\* field system and the agent system are created with a reference to it and keep
\* that reference (system), the simulation's variable config refers to it too
createSimulation == [heap |-> <<DEFAULT_CONFIG>>, config |-> 1, system |-> 1]

\* updateConfig(newConfig): Object.assign(config, newConfig)
updateConfig(st, key, value) ==
    [st EXCEPT !.heap[st.config][key] = value]

\* setTimeScale(scale): config.timeScale = Math.max(0, Math.min(10, scale))
setTimeScale(st, scale) ==
    [st EXCEPT !.heap[st.config].timeScale = Max(0, Min(10000, scale))]

\* resetSimulation: config = { ...DEFAULT_CONFIG } binds the variable to a new
\* object; agentSystem.reset() and fieldSystem.reset() take no config
resetSimulation(st) ==
    [st EXCEPT !.heap = Append(st.heap, DEFAULT_CONFIG), !.config = Len(st.heap) + 1]

\* getConfig: { ...config }
getConfig(st) == st.heap[st.config]

\* FieldSystem.update / AgentSystem.update: the parameters they write into their
\* params buffers, read from the config object they were created with
UploadedParams(st) == st.heap[st.system]

RECURSIVE RunCalls(_, _)
RunCalls(st, calls) ==
    IF calls = <<>> THEN st
    ELSE LET c == Head(calls)
             next == IF c.op = "updateConfig" THEN updateConfig(st, c.key, c.value)
                     ELSE IF c.op = "setTimeScale" THEN setTimeScale(st, c.value)
                     ELSE resetSimulation(st)
         IN  RunCalls(next, Tail(calls))

FnInputs ==
    ModeInputs \cup SeedInputs \cup MoveInputs \cup ChildInputs \cup FieldInputs
        \cup SplitInputs \cup ImportInputs \cup WrapInputs \cup AccessInputs
        \cup AccumInputs \cup ConfigInputs

InitKernelFn ==
    /\ createAgentSystem(0)
    /\ InitHost(0)
    /\ InitTick
    /\ held = [t \in Slots |-> {}]
    /\ fnInput \in FnInputs
    /\ fnOutput = <<>>

\* section 2 of updateAgents
ApplyDecideMode ==
    /\ fnInput.kind = "mode"
    /\ fnOutput = <<>>
    /\ fnOutput' = [mode |-> DecideMode(fnInput.agentMode, fnInput.danger, fnInput.energy,
                                        fnInput.reproThreshold, fnInput.cooldown,
                                        fnInput.res, fnInput.gain)]
    /\ UNCHANGED <<fnRest, fnInput>>

\* createAgentSystem: the record of one seeded agent
ApplySeedRecord ==
    /\ fnInput.kind = "seed"
    /\ fnOutput = <<>>
    /\ fnOutput' = [agent |-> SeedRecord(fnInput.rx, fnInput.ry, fnInput.re, fnInput.rnd)]
    /\ UNCHANGED <<fnRest, fnInput>>

\* sections 1, 3 and 4 of updateAgents for an agent in INTAKE mode: the cell whose
\* resource is sampled, position update and boundary clamp, the cell and the amount
\* of the atomicAdd on resConsumeMicro
ApplyMovePos ==
    /\ fnInput.kind = "move"
    /\ fnOutput = <<>>
    /\ LET pos == MovePos(fnInput.pos, fnInput.delta)
       IN  fnOutput' = [pos |-> pos,
                        sampledCell |-> fieldIdx(fnInput.pos[1], fnInput.pos[2]),
                        consumeCell |-> fieldIdx(pos[1], pos[2]),
                        consumeMicro |-> ToMicro(fnInput.uptake)]
    /\ UNCHANGED <<fnRest, fnInput>>

\* processReproduction: the child built from the parent record
ApplyMakeChild ==
    /\ fnInput.kind = "child"
    /\ fnOutput = <<>>
    /\ fnOutput' = [agent |-> MakeChild(fnInput.parent, fnInput.dir, fnInput.h)]
    /\ UNCHANGED <<fnRest, fnInput>>

\* triggerFileLoad, once the file is chosen
ApplyLoadConfig ==
    /\ fnInput.kind = "import"
    /\ fnOutput = <<>>
    /\ fnOutput' = LoadConfig(fnInput)
    /\ UNCHANGED <<fnRest, fnInput>>

\* a sequence of calls on the simulation, then getConfig() and the next step
ApplyConfigCalls ==
    /\ fnInput.kind = "config"
    /\ fnOutput = <<>>
    /\ LET st == RunCalls(createSimulation, fnInput.calls)
       IN  fnOutput' = [getConfig |-> getConfig(st), uploaded |-> UploadedParams(st)]
    /\ UNCHANGED <<fnRest, fnInput>>

\* the neighbourhood updateFields reads for one cell
ApplyLaplacianCells ==
    /\ fnInput.kind = "wrap"
    /\ fnOutput = <<>>
    /\ fnOutput' = LaplacianCells(fnInput.x, fnInput.y)
    /\ UNCHANGED <<fnRest, fnInput>>

\* one thread of updateAgents, for the memory it touches
ApplyUpdateAgentsCells ==
    /\ fnInput.kind = "access"
    /\ fnOutput = <<>>
    /\ fnOutput' = UpdateAgentsCells(fnInput)
    /\ UNCHANGED <<fnRest, fnInput>>

\* atomicAdd(&metrics.uptakeMicro, ...) by every agent in INTAKE mode in every tick
\* between two drains: the sum of the amounts and the value the u32 word holds
ApplyAccumulate ==
    /\ fnInput.kind = "accum"
    /\ fnOutput = <<>>
    /\ LET sum == fnInput.agents * fnInput.amount * fnInput.ticks
       IN  fnOutput' = [sum |-> sum, word |-> sum % U32Range]
    /\ UNCHANGED <<fnRest, fnInput>>

\* updateFields for one cell
ApplyUpdateFields ==
    /\ fnInput.kind = "field"
    /\ fnOutput = <<>>
    /\ fnOutput' =
          [res |-> UpdateResource(fnInput.c, fnInput.nb, fnInput.terrain,
                                  fnInput.diffusionCoeff, fnInput.resourceDecay,
                                  ResourceGeneration(fnInput.resourceGenRate, fnInput.patches),
                                  fnInput.dt),
           pher |-> UpdatePheromone(fnInput.c, fnInput.nb, fnInput.diffusionCoeff,
                                    fnInput.pheromoneDecay, fnInput.dt),
           danger |-> UpdateDanger(fnInput.c, fnInput.nb, fnInput.diffusionCoeff,
                                   fnInput.dangerDecay, fnInput.dangerFromConsumption,
                                   fnInput.consumed, fnInput.dt)]
    /\ UNCHANGED <<fnRest, fnInput>>

\* a reproduction: updateAgents halves the parent's energy and stores it,
\* processReproduction reads the stored record and builds the child
ApplyReproduction ==
    /\ fnInput.kind = "split"
    /\ fnOutput = <<>>
    /\ LET parent == LifecycleReproduce(fnInput.agent)
       IN  fnOutput' = [parent |-> parent,
                        child |-> MakeChild(parent, fnInput.dir, fnInput.h)]
    /\ UNCHANGED <<fnRest, fnInput>>

NextKernelFn ==
    \/ ApplyDecideMode
    \/ ApplySeedRecord
    \/ ApplyMovePos
    \/ ApplyMakeChild
    \/ ApplyUpdateFields
    \/ ApplyReproduction
    \/ ApplyLoadConfig
    \/ ApplyLaplacianCells
    \/ ApplyUpdateAgentsCells
    \/ ApplyAccumulate
    \/ ApplyConfigCalls

SpecKernelFn == InitKernelFn /\ [][NextKernelFn]_vars

(***************************************************************************)
(* Properties of the kernels (Spec).                                       *)
(***************************************************************************)
\* the number of live free-list entries that hold index i
Occurrences(i) == Cardinality({k \in 0 .. (MaxAgents - 1) : k < freeList.count /\ freeList.indices[k] = i})

AliveSlots == {s \in Slots : agents[s].alive = 1}

\* C1 as stated: at every tick boundary every index in [0, maxAgents) is either a
\* live record and not in the free list, or a dead record that is in the free list
\* exactly once.
C1_EveryIndexAliveOrFree ==
    TickIdle =>
        \A i \in Slots :
            \/ agents[i].alive = 1 /\ Occurrences(i) = 0
            \/ agents[i].alive = 0 /\ Occurrences(i) = 1

\* C1 amended: at every tick boundary every index below the high-water mark
\* agentCount is either a live record and not in the free list, or a dead record
\* that is in the free list exactly once; an index at or above agentCount is a dead
\* (never used) record that is not in the free list; the free list holds no entry
\* twice and its count and agentCount stay within [0, maxAgents].
C1_AllocatedIndexAliveOrFree ==
    TickIdle =>
        /\ agentCount \in 0 .. MaxAgents
        /\ freeList.count \in 0 .. MaxAgents
        /\ \A i \in Slots :
              IF i < agentCount
              THEN \/ agents[i].alive = 1 /\ Occurrences(i) = 0
                   \/ agents[i].alive = 0 /\ Occurrences(i) = 1
              ELSE agents[i].alive = 0 /\ Occurrences(i) = 0

\* a tick boundary after deaths and births: one slot is free, another one is alive
\* and the array has been filled to its capacity
C1_Witness ==
    /\ TickIdle
    /\ agentCount = MaxAgents
    /\ freeList.count >= 1
    /\ AliveSlots # {}

\* the boundary between the two passes of a tick
PassBoundary == phase = "repro" /\ \A t \in Slots : pc[t] = "r_start"

\* C3: when processReproduction starts, every living agent whose energy was <= 0
\* after the costs of this updateAgents pass has alive = 0 and its index is in the
\* free list exactly once; metrics.deaths has grown and metrics.alive has shrunk by
\* the number of those agents, the free list by as many entries; no agent the pass
\* handled is left alive with energy <= 0.
C3_DeathInSamePass ==
    PassBoundary =>
        /\ \A t \in zeroed : agents[t].alive = 0 /\ Occurrences(t) = 1
        /\ metrics[M_DEATHS] = tick0.deaths + Cardinality(zeroed)
        /\ metrics[M_ALIVE] = tick0.alive - Cardinality(zeroed)
        /\ freeList.count = tick0.freeCount + Cardinality(zeroed)
        /\ \A t \in Slots :
              LessU32(t, paramsAgentCount) /\ agents[t].alive = 1 => agents[t].energy > 0

\* the reproduction pass is about to start and an agent died in the update pass
C3_Witness == PassBoundary /\ zeroed # {}

C5_DroppedAttempt ==
    /\ [](\A t \in Slots : pc[t] = "r_child" => LessU32(loc[t].newIdx, MaxAgents))
    /\ [](phase = "repro" /\ (\A t \in Slots : pc[t] = "done") =>
             /\ agentCount \in 0 .. MaxAgents
             /\ dropped # {} => agentCount = MaxAgents /\ freeList.count = 0)
    /\ [][\A t \in Slots :
             /\ pc[t] = "r_bump" /\ pc'[t] # "r_bump" /\ ~LessU32(agentCount, MaxAgents) =>
                   /\ pc'[t] = "r_rollback"
                   /\ agents' = agents
                   /\ metrics' = metrics
             /\ pc[t] = "r_rollback" /\ pc'[t] # "r_rollback" =>
                   /\ pc'[t] = "done"
                   /\ agentCount' = SubU32(agentCount, 1)
                   /\ agents' = agents
                   /\ metrics' = metrics]_vars

\* a reproduction pass is over in which an attempt was dropped
C5_Witness ==
    /\ phase = "repro"
    /\ \A t \in Slots : pc[t] = "done"
    /\ dropped # {}

\* C6: at every tick boundary metrics.alive is the number of records with
\* alive = 1, and the counter is never below 0 (never wraps) in any state.
C6_AliveCounterExact ==
    /\ metrics[M_ALIVE] >= 0
    /\ TickIdle => metrics[M_ALIVE] = Cardinality(AliveSlots)

\* a tick boundary after a tick with a death, in which a record is still alive
C6_Witness ==
    /\ TickIdle
    /\ freeList.count >= 1
    /\ metrics[M_ALIVE] >= 1
    /\ metrics[M_DEATHS] >= 1

(***************************************************************************)
(* Properties of the free list under mixed pushes and pops (SpecFreeList). *)
(***************************************************************************)
Holders(i) == {t \in Slots : i \in held[t]}

C7_NoDoubleCount ==
    /\ countedBirths <= born
    /\ countedDeaths <= died

\* the step of AgentSystem.reset, seen from the buffers and the host copy
IsAgentReset ==
    /\ HostIdle
    /\ metrics' = [w \in Words |-> IF w = M_ALIVE THEN currentAgentCount' ELSE 0]
    /\ agentCount' = currentAgentCount'
    /\ freeList' = FreeListInit

\* C8: the drain that ends a counters read zeroes the words 1..22 of the metrics
\* buffer and leaves word 0 (alive) as it is; the alive word changes only by the
\* kernels of a step or by reset().
C8_DrainKeepsAlive ==
    [][/\ isReadbackMapped /\ ~isReadbackMapped' =>
             /\ metrics'[M_ALIVE] = metrics[M_ALIVE]
             /\ \A w \in 1 .. (METRICS_U32_COUNT - 1) : metrics'[w] = 0
       /\ metrics'[M_ALIVE] # metrics[M_ALIVE] =>
             \/ inFrame /\ stepsLeft' = stepsLeft - 1
             \/ IsAgentReset]_vars

\* a counters read has taken a birth from the accumulators and drained them while
\* agents are alive
C8_Witness ==
    /\ ~isReadbackMapped
    /\ recentBirths >= 1
    /\ metrics[M_BIRTHS] = 0
    /\ metrics[M_ALIVE] >= 1

\* the field pass of the command buffer at position j of the log
FieldPassAt(j) == submitted[j].passes[1]

\* C9: every field dispatch binds, for resource, danger and pheromone, different
\* buffers for reading and writing; a step flips currentBuffer exactly once, after
\* the pass was encoded with the old value, and nothing but a step or reset changes
\* it; the getters then return the buffers this dispatch wrote, and the agent
\* passes of the same step are bound to them.
C9_PingPong ==
    /\ [](\A j \in 1 .. Len(submitted) :
             submitted[j].label = "fieldUpdate" =>
                 LET f == FieldPassAt(j).bind
                 IN  /\ f.resourceIn # f.resourceOut
                     /\ f.dangerIn # f.dangerOut
                     /\ f.pheromoneIn # f.pheromoneOut
                     /\ \A k \in 1 .. Len(submitted) :
                           /\ submitted[k].label = "agentUpdate"
                           /\ submitted[k].step = submitted[j].step
                           => \A q \in 1 .. Len(submitted[k].passes) :
                                 /\ submitted[k].passes[q].bind.resource = f.resourceOut
                                 /\ submitted[k].passes[q].bind.danger = f.dangerOut
                                 /\ submitted[k].passes[q].bind.pheromone = f.pheromoneOut)
    /\ [][/\ inFrame /\ stepsLeft' = stepsLeft - 1 =>
                /\ currentBuffer' = 1 - currentBuffer
                /\ \E j \in (Len(submitted) + 1) .. Len(submitted') :
                      /\ submitted'[j].label = "fieldUpdate"
                      /\ FieldPassAt(j)'.bind.resourceIn = currentBuffer
                      /\ FieldPassAt(j)'.bind.resourceOut = getResourceBuffer(currentBuffer')
                      /\ FieldPassAt(j)'.bind.dangerOut = getDangerBuffer(currentBuffer')
                      /\ FieldPassAt(j)'.bind.pheromoneOut = getPheromoneBuffer(currentBuffer')
          /\ currentBuffer' # currentBuffer =>
                \/ inFrame /\ stepsLeft' = stepsLeft - 1
                \/ HostIdle /\ currentBuffer' = 0]_vars

\* a frame callback has taken two steps: the buffers were flipped twice
C9_Witness ==
    /\ inFrame
    /\ Len(submitted) >= 4
    /\ FieldPassAt(1).bind.resourceIn # FieldPassAt(3).bind.resourceIn

\* C10: the command buffers of a frame are submitted step by step: the field
\* command buffer of a step, then its agent command buffer, whose passes are
\* updateAgents, then processReproduction, then the readback copies if any; the
\* command buffers of one step are never separated by those of another.
C10_StepOrder ==
    /\ Len(submitted) % 2 = 0
    /\ \A j \in 1 .. Len(submitted) :
          IF j % 2 = 1
          THEN /\ submitted[j].label = "fieldUpdate"
               /\ Len(submitted[j].passes) = 1
               /\ submitted[j].passes[1].label = "fieldUpdate"
               /\ submitted[j + 1].step = submitted[j].step
          ELSE /\ submitted[j].label = "agentUpdate"
               /\ Len(submitted[j].passes) \in {2, 3}
               /\ submitted[j].passes[1].label = "agentUpdate"
               /\ submitted[j].passes[2].label = "agentReproduction"
               /\ Len(submitted[j].passes) = 3 => submitted[j].passes[3].label = "copy"
    /\ \A i, j, k \in 1 .. Len(submitted) :
          i < j /\ j < k /\ submitted[i].step = submitted[k].step =>
              submitted[j].step = submitted[i].step
    /\ \A i, j \in 1 .. Len(submitted) :
          submitted[i].step = submitted[j].step => (i + 1) \div 2 = (j + 1) \div 2

\* a frame callback has taken its last step after an earlier one, the readback
\* copies encoded in both
C10_Witness ==
    /\ inFrame
    /\ stepsLeft = 0
    /\ Len(submitted) = 4
    /\ Len(submitted[2].passes) = 3
    /\ Len(submitted[4].passes) = 3

EnergyFlooredInUpdate ==
    /\ \A s \in Slots : agents[s].energy >= 0
    /\ PassBoundary =>
          \A s \in Slots : LessU32(s, paramsAgentCount) /\ agents[s].alive = 1
                              => agents[s].energy > 0

\* a thread of processReproduction has passed the alive / mode test on a torn read:
\* as parent it holds a record with energy 0 (reached under Spec)
TornParentHeld ==
    \E t \in Slots :
        /\ phase = "repro"
        /\ pc[t] \notin {"r_start", "done"}
        /\ loc[t].agent.alive = 1
        /\ loc[t].agent.mode = MODE_REPRODUCE
        /\ loc[t].agent.energy = 0

\* updateCounters: the words of the readback data that hold the births and deaths
\* counts and the first trait sum (efficiency, in thousandths) of each window
DATA_BIRTHS == 2
DATA_DEATHS == 3
DATA_BIRTHS_EFF == 12
DATA_DEATHS_EFF == 18

\* C20: the trait sums the host divides by recentBirths / recentDeaths are the sums
\* over the agents born / dead in the window: with n deaths (births) in the data,
\* the efficiency sum is at least n times the smallest efficiency an agent can have.
C20_TraitSumsAccumulated ==
    /\ readbackBuffer[DATA_DEATHS_EFF]
          >= readbackBuffer[DATA_DEATHS] * GENETIC_RANGES.efficiency.min
    /\ readbackBuffer[DATA_BIRTHS_EFF]
          >= readbackBuffer[DATA_BIRTHS] * GENETIC_RANGES.efficiency.min

(***************************************************************************)
(* Properties of the point-inspection queries (SpecQuery).                 *)
(***************************************************************************)
\* C11: for each query type at most one read is in flight; a read is submitted only
\* by a call that found the busy flag clear and no read in flight, one submission
\* per call; a call made while a read of its type is in flight returns null and
\* changes neither the flag nor the reads in flight nor the submissions, and the
\* continuation of a read submits nothing (no rejected call is run later).
C11_OneReadInFlight ==
    /\ [](\A q \in QueryTypes : /\ queryInFlight[q] <= 1
                                /\ queryInFlight[q] = 1 => queryMapping[q])
    /\ [][\A q \in QueryTypes :
             /\ querySubmits'[q] # querySubmits[q] =>
                   /\ ~queryMapping[q]
                   /\ queryInFlight[q] = 0
                   /\ querySubmits'[q] = querySubmits[q] + 1
                   /\ queryInFlight'[q] = 1
             /\ queryInFlight[q] > 0 /\ queryInFlight'[q] >= queryInFlight[q]
                /\ queryReturn'[q] # queryReturn[q] =>
                   /\ queryReturn'[q] = "null"
                   /\ querySubmits'[q] = querySubmits[q]
                   /\ queryInFlight'[q] = queryInFlight[q]
                   /\ queryMapping'[q] = queryMapping[q]]_vars

\* a call of every query type was rejected while a read of its type was in flight
\* (for the probe: a read is in flight and the cell is dirty again)
C11_Witness ==
    /\ \A q \in QueryTypes \ {"probe"} : queryInFlight[q] = 1 /\ queryReturn[q] = "null"
    /\ queryInFlight["probe"] = 1
    /\ probeDirty

(***************************************************************************)
(* Properties of the kernel computations (SpecKernelFn).                   *)
(***************************************************************************)
\* C12: the mode updateAgents chooses is given by the priority table: danger above
\* the panic threshold gives EVADE whatever the other inputs; otherwise energy >=
\* reproThreshold, cooldown <= 0 and danger below the safety threshold give
\* REPRODUCE; otherwise resource above its floor and expected gain above its
\* epsilon give INTAKE; otherwise EXPLORE.  The previous mode has no influence.
C12_ModePriority ==
    fnInput.kind = "mode" /\ fnOutput # <<>> =>
        fnOutput.mode =
            IF fnInput.danger > PanicDanger THEN MODE_EVADE
            ELSE IF /\ fnInput.energy >= fnInput.reproThreshold
                    /\ fnInput.cooldown <= 0
                    /\ fnInput.danger < SafeDanger THEN MODE_REPRODUCE
            ELSE IF fnInput.res > ResourceFloor /\ fnInput.gain > GainEpsilon
                 THEN MODE_INTAKE
            ELSE MODE_EXPLORE

\* the decision ran for an agent that was in INTAKE mode and fell to EXPLORE
C12_Witness ==
    /\ fnInput.kind = "mode"
    /\ fnOutput # <<>>
    /\ fnInput.agentMode = MODE_INTAKE
    /\ fnInput.danger <= PanicDanger
    /\ fnInput.energy < fnInput.reproThreshold
    /\ fnInput.res <= ResourceFloor
    /\ fnOutput.mode = MODE_EXPLORE

InGrid(pos) == \A i \in 1 .. 2 : 0 <= pos[i] /\ pos[i] <= GridMax

\* C14: every alive agent has both coordinates within [0, gridSize - 1]: seeded
\* agents, agents after movement, and children when they are created.
C14_PositionInGrid ==
    fnOutput # <<>> =>
        /\ fnInput.kind = "move" => InGrid(fnOutput.pos)
        /\ fnInput.kind \in {"seed", "child"} => InGrid(fnOutput.agent.pos)

\* C15: energy is never negative and every child is created with energy > 0 (for
\* the part about updateAgents see EnergyFlooredInUpdate).
C15_ChildEnergyPositive ==
    fnOutput # <<>> /\ fnInput.kind \in {"seed", "child"} => fnOutput.agent.energy > 0

\* C16: after a field update the resource, danger and pheromone values written for
\* a cell lie within [0,1] (0 .. 1000 thousandths), for inputs in [0,1] and
\* non-negative parameters.
C16_FieldValuesInUnit ==
    fnInput.kind = "field" /\ fnOutput # <<>> =>
        /\ 0 <= fnOutput.res /\ fnOutput.res <= 1000
        /\ 0 <= fnOutput.pher /\ fnOutput.pher <= 1000
        /\ 0 <= fnOutput.danger /\ fnOutput.danger <= 1000

\* a cell whose values left [0,1] before the clamp: diffusion from full neighbours
\* into an empty cell with a large coefficient, no decay
C16_Witness ==
    /\ fnInput.kind = "field"
    /\ fnOutput # <<>>
    /\ fnInput.c = 0
    /\ fnInput.nb = <<1000, 1000, 1000, 1000>>
    /\ fnInput.diffusionCoeff = 100000
    /\ fnInput.terrain = 1000
    /\ fnInput.resourceDecay = 0
    /\ fnInput.pheromoneDecay = 0
    /\ fnOutput.res = 1000
    /\ fnOutput.pher = 1000

\* C17: each of the 12 genetic traits of every agent written alive lies within the
\* [min, max] range of the trait: a seeded agent's for every random draw, a child's
\* for every parent value and every hash output.
C17_TraitsInRange ==
    fnOutput # <<>> /\ fnInput.kind \in {"seed", "child"} =>
        \A k \in TraitNames :
            /\ GENETIC_RANGES[k].min <= fnOutput.agent.traits[k]
            /\ fnOutput.agent.traits[k] <= GENETIC_RANGES[k].max

\* a child whose parent record held a reproCooldown beyond the range, mutated upwards
C17_Witness ==
    /\ fnInput.kind = "child"
    /\ fnOutput # <<>>
    /\ fnInput.parent.traits.reproCooldown > GENETIC_RANGES.reproCooldown.max
    /\ fnInput.h.reproCooldown = 1000
    /\ fnOutput.agent.traits.reproCooldown = GENETIC_RANGES.reproCooldown.max

\* C18: a parent that reproduces with energy E keeps E/2, its child receives
\* 0.8 * (E/2) = 0.4 E, parent and child together hold 0.9 E (E a multiple of 10).
C18_EnergySplit ==
    fnInput.kind = "split" /\ fnOutput # <<>> =>
        LET E == fnInput.agent.energy
        IN  /\ 2 * fnOutput.parent.energy = E
            /\ 10 * fnOutput.child.energy = 4 * E
            /\ 10 * (fnOutput.parent.energy + fnOutput.child.energy) = 9 * E

\* a parent with energy 123.45 reproduced
C18_Witness ==
    /\ fnInput.kind = "split"
    /\ fnOutput # <<>>
    /\ fnInput.agent.energy = 123450
    /\ fnOutput.parent.energy = 61725
    /\ fnOutput.child.energy = 49380

\* the parent record a child of the kernel computation was built from
ParentOfChild == IF fnInput.kind = "split" THEN fnOutput.parent ELSE fnInput.parent

BuiltChild == IF fnInput.kind = "split" THEN fnOutput.child ELSE fnOutput.agent

\* C19: every child processReproduction writes has alive = 1, mode = EXPLORE,
\* stress = 0, age = 0, cooldown equal to the parent's unmutated reproCooldown
\* trait and generation equal to the parent's generation + 1.
C19_ChildInit ==
    fnOutput # <<>> /\ fnInput.kind \in {"child", "split"} =>
        /\ BuiltChild.alive = 1
        /\ BuiltChild.mode = MODE_EXPLORE
        /\ BuiltChild.stress = 0
        /\ BuiltChild.age = 0
        /\ BuiltChild.cooldown = ParentOfChild.traits.reproCooldown
        /\ BuiltChild.generation = ParentOfChild.generation + 1

\* a child of a parent of generation 2 whose own reproCooldown trait was mutated
\* away from the parent's
C19_Witness ==
    /\ fnInput.kind = "child"
    /\ fnOutput # <<>>
    /\ fnInput.parent.generation = 2
    /\ fnOutput.agent.generation = 3
    /\ fnOutput.agent.traits.reproCooldown # fnInput.parent.traits.reproCooldown
    /\ fnOutput.agent.cooldown = fnInput.parent.traits.reproCooldown

\* C21: the amount an agent in INTAKE mode consumed is added to the accumulator of
\* the cell whose resource was sampled to compute the uptake, and the amount added
\* is > 0 whenever the uptake amount is > 0.
C21_ConsumedAtSampledCell ==
    fnInput.kind = "move" /\ fnOutput # <<>> =>
        /\ fnOutput.consumeCell = fnOutput.sampledCell
        /\ fnInput.uptake > 0 => fnOutput.consumeMicro > 0

\* C22: a frame callback runs at most 240 fixed steps, its deltaTime is clamped to
\* [0, 0.05] s, and after it the step accumulator holds at most one fixed step.
C22_FrameBounded ==
    /\ frameSteps <= maxStepsThisFrame
    /\ 0 <= frameDelta /\ frameDelta <= MAX_DELTA_TIME
    /\ 0 <= stepAccumulator /\ stepAccumulator <= FIXED_STEP_DT

\* a frame ran into the cap of 240 steps and dropped the time it could not spend
C22_Witness ==
    /\ frameSteps = maxStepsThisFrame
    /\ frameDelta = MAX_DELTA_TIME
    /\ stepAccumulator = FIXED_STEP_DT

\* a configuration file that is not well formed: its text is not JSON, is not an
\* object, or a part of it holds values of the wrong types
Malformed(in) ==
    \/ in.text # "object"
    \/ in.simulation = "wrongType"
    \/ in.render = "wrongType"

\* C23: importing a malformed configuration file leaves the simulation config and
\* the render config unchanged and shows a failure message.
C23_MalformedImportRejected ==
    fnInput.kind = "import" /\ fnOutput # <<>> /\ Malformed(fnInput) =>
        /\ fnOutput.config = fnInput.config
        /\ fnOutput.renderConfig = fnInput.renderConfig
        /\ fnOutput.alert

C25_CopyThrough ==
    /\ fnInput.kind = "field" /\ fnOutput # <<>>
    /\ fnInput.diffusionCoeff = 0 /\ fnInput.resourceDecay = 0
    /\ fnInput.pheromoneDecay = 0 /\ fnInput.resourceGenRate = 0
    => fnOutput.res = fnInput.c /\ fnOutput.pher = fnInput.c

\* a cell inside a patch whose neighbours differ from it is copied through
C25_Witness ==
    /\ fnInput.kind = "field" /\ fnOutput # <<>>
    /\ fnInput.diffusionCoeff = 0 /\ fnInput.resourceDecay = 0
    /\ fnInput.pheromoneDecay = 0 /\ fnInput.resourceGenRate = 0
    /\ fnInput.c = 500 /\ fnInput.nb = <<0, 1000, 0, 500>>
    /\ fnInput.patches = 1000 /\ fnInput.terrain = 1000
    /\ fnOutput.res = 500 /\ fnOutput.pher = 500

\* the index of the cell in column x and row y, both inside the grid
CellAt(x, y) == y * GridSize + x

\* C26: the four neighbours of the Laplacian of a cell are taken with wrap-around in
\* both axes (left of column 0 is column gridSize-1, right of column gridSize-1 is
\* column 0, likewise for rows), and the computed index is within [0, gridSize^2)
\* for every x, y in [-1, gridSize].
C26_NeighboursWrap ==
    fnInput.kind = "wrap" /\ fnOutput # <<>> =>
        LET x == fnInput.x
            y == fnInput.y
            last == GridSize - 1
        IN  /\ \A k \in DOMAIN fnOutput : fnOutput[k] \in 0 .. (GridSize * GridSize - 1)
            /\ x \in 0 .. last /\ y \in 0 .. last =>
                  /\ fnOutput.c = CellAt(x, y)
                  /\ fnOutput.l = CellAt(IF x = 0 THEN last ELSE x - 1, y)
                  /\ fnOutput.r = CellAt(IF x = last THEN 0 ELSE x + 1, y)
                  /\ fnOutput.u = CellAt(x, IF y = 0 THEN last ELSE y - 1)
                  /\ fnOutput.d = CellAt(x, IF y = last THEN 0 ELSE y + 1)

\* the corner cell (0, gridSize-1): its left neighbour is in the last column, its
\* lower neighbour in row 0
C26_Witness ==
    /\ fnInput.kind = "wrap" /\ fnOutput # <<>>
    /\ fnInput.x = 0 /\ fnInput.y = GridSize - 1
    /\ fnOutput.l = CellAt(GridSize - 1, GridSize - 1)
    /\ fnOutput.d = CellAt(0, 0)

\* C27: every field read and every accumulator write of an agent thread uses a
\* cell index within [0, gridSize^2), for any position and sense range, also
\* outside the grid; a thread with index >= params.agentCount reads and writes
\* nothing.
C27_CellIndexInRange ==
    fnInput.kind = "access" /\ fnOutput # <<>> =>
        /\ fnOutput.reads \cup fnOutput.writes \subseteq 0 .. (GridSize * GridSize - 1)
        /\ ~LessU32(fnInput.idx, fnInput.agentCount) =>
              fnOutput.records = {} /\ fnOutput.reads = {} /\ fnOutput.writes = {}

\* a living agent left of and above the grid whose sense rays reach further out
C27_Witness ==
    /\ fnInput.kind = "access" /\ fnOutput # <<>>
    /\ fnInput.pos = <<-ChildOffset * PosScale, -ChildOffset * PosScale>>
    /\ fnInput.senseRange = ChildOffset * PosScale
    /\ fnOutput.reads = {0}
    /\ fnOutput.writes = {0}

\* C28: a parent produces at most one child per tick and has reproduced at the
\* lifecycle resolution of that tick, which set its cooldown to reproCooldown; a
\* newborn child does not reproduce before its cooldown has elapsed.  A thread of
\* processReproduction that passes the parent test and goes on to take a slot for
\* a child does so once, for a living record in REPRODUCE mode whose cooldown is
\* reproCooldown.
C28_ParentReproducedThisTick ==
    [][\A t \in Slots :
          phase = "repro" /\ pc[t] = "r_start" /\ pc'[t] \notin {"r_start", "done"} =>
              /\ agents[t].alive = 1
              /\ agents[t].mode = MODE_REPRODUCE
              /\ agents[t].cooldown = ReproCooldown]_vars

\* C29: the u32 micro-unit accumulators never wrap modulo 2^32 between two drains,
\* for any number of agents up to maxAgents and any number of ticks between polls:
\* the value read is the sum of the amounts added.
C29_AccumulatorExact ==
    fnInput.kind = "accum" /\ fnOutput # <<>> => fnOutput.word = fnOutput.sum

\* the command buffers a step appended to those of the running frame callback
NewSubmits == { submitted'[i] : i \in (Len(submitted) + 1) .. Len(submitted') }

HasCopy(cb) == \E j \in DOMAIN cb.passes : cb.passes[j].label = "copy"

\* C30: a copy into the counters readback buffer is encoded only while no mapping
\* of that buffer is pending or active, and updateCounters never starts a second
\* mapAsync while one is outstanding.
C30_ReadbackExclusive ==
    /\ [](readbackMaps <= 1)
    /\ [][/\ (\E cb \in NewSubmits : HasCopy(cb)) => readbackMaps = 0
          /\ readbackMaps > 0 /\ readbackMaps' > 0 => readbackBuffer' = readbackBuffer]_vars

\* a step of the frame callback ran while the mapping was outstanding and encoded
\* no copy
C30_Witness ==
    /\ readbackMaps = 1
    /\ \E i \in DOMAIN submitted :
          submitted[i].label = "agentUpdate" /\ ~HasCopy(submitted[i])

(***************************************************************************)
(* Allocation through the high-water mark (Spec).                          *)
(***************************************************************************)
\* the threads that hold an index for the child they are writing
ChildHolders == { t \in Slots : pc[t] \in {"r_child", "r_births", "r_alive"} }

\* C31: under every interleaving of the atomicAdd / atomicSub pairs of the
\* reproducing threads, an index returned by atomicAdd(&agentCount) that passes
\* the capacity test is below maxAgents, names a record no thread has used and is
\* held by no other thread; agentCount is at most maxAgents once all threads of
\* the pass have finished; and agentCount decreases only in the atomicSub of a
\* dropped attempt, from a value above maxAgents, or in a reset, so that it never
\* decreases from one tick boundary to the next except on reset.
C31_HighWaterSafe ==
    /\ [](phase = "repro" /\ (\A t \in Slots : pc[t] = "done") =>
             ~LessU32(MaxAgents, agentCount))
    /\ [](TickIdle => ~LessU32(MaxAgents, agentCount))
    /\ [][/\ \A t \in Slots :
                pc[t] = "r_bump" /\ pc'[t] = "r_child" =>
                   /\ loc'[t].newIdx = agentCount
                   /\ LessU32(loc'[t].newIdx, MaxAgents)
                   /\ agents[loc'[t].newIdx].alive = 0
                   /\ \A u \in ChildHolders : loc[u].newIdx # loc'[t].newIdx
          /\ LessU32(agentCount', agentCount) =>
                \/ TickIdle /\ TickIdle'
                \/ /\ LessU32(MaxAgents, agentCount)
                   /\ \E t \in Slots : pc[t] = "r_rollback" /\ pc'[t] = "done"]_vars

\* two threads of one pass have both added to agentCount past the capacity and
\* neither has subtracted yet
C31_Witness ==
    /\ phase = "repro"
    /\ agentCount = MaxAgents + 2
    /\ \E t, u \in Slots : t # u /\ pc[t] = "r_rollback" /\ pc[u] = "r_rollback"

\* the record slot t held when the processReproduction pass began, for a thread
\* that has not yet read it
RecordAtPassBegin(t) == IF stale[t] = <<>> THEN agents[t] ELSE stale[t][1]

\* C32: a record written as a child during a processReproduction pass is never
\* used as a parent in that pass: a thread that passes the parent test does so
\* on a slot no child has been written to in this pass, and the record that slot
\* held when the pass began was alive and in REPRODUCE mode (so the pass creates
\* at most as many children as there were agents in REPRODUCE mode at its start).
C32_ChildNeverParent ==
    [][\A t \in Slots :
          phase = "repro" /\ pc[t] = "r_start" /\ pc'[t] = "r_load" =>
              /\ stale[t] = <<>>
              /\ RecordAtPassBegin(t).alive = 1
              /\ RecordAtPassBegin(t).mode = MODE_REPRODUCE]_vars

\* the energies a record can hold right after agent.energy *= 0.5
HalvedEnergies == { HalfEnergy(e) : e \in 1 .. MaxEnergy }

\* C33: when a reproduction attempt is dropped for lack of capacity, the record
\* of the thread's slot is that of a living parent in REPRODUCE mode whose energy
\* was halved and whose cooldown was set to reproCooldown by updateAgents in this
\* tick, and the dropping thread leaves every record as it is.
C33_DroppedParentPaid ==
    [][\A t \in Slots :
          pc[t] = "r_rollback" /\ pc'[t] = "done" =>
              /\ agents' = agents
              /\ agents[t].alive = 1
              /\ agents[t].mode = MODE_REPRODUCE
              /\ agents[t].cooldown = ReproCooldown
              /\ agents[t].energy \in HalvedEnergies]_vars

\* C34: no birth, death or unit of uptake recorded on the GPU is erased by the
\* zeroing write of updateCounters without having been part of the readback copy
\* that was read: when a counters read ends, each of the words births, deaths and
\* uptakeMicro that the write zeroes holds no more than the copy that was read.
C34_NothingErasedUnread ==
    [][isReadbackMapped /\ ~isReadbackMapped' =>
          \A w \in {M_BIRTHS, M_DEATHS, M_UPTAKE} :
              ~LessU32(readbackBuffer[w + 1], metrics[w])]_vars

(***************************************************************************)
(* Properties of the probe (SpecQuery).                                    *)
(***************************************************************************)
\* C35: the coordinates stored in lastProbeData are those of the cell whose five
\* field values were copied for that read, under any interleaving of setProbeCell
\* calls with a probe read in flight.
C35_ProbeCoordinatesMatch == lastProbeData.x = lastProbeData.valuesOf

\* the probe cell is c, it has been running since and the last read did not fail,
\* yet lastProbeData does not hold the values of c
ProbePending(c) == probeCell = c /\ probeDirty /\ running

ProbeServed(c) ==
    \/ probeCell # c
    \/ ~running
    \/ queryReturn["probe"] = "error"
    \/ lastProbeData = [x |-> c, valuesOf |-> c]

\* C36: after setProbeCell(c) selected a new cell, and unless a later call changes
\* the cell, the simulation is stopped or a probe read fails, lastProbeData
\* eventually holds the coordinates and the values of cell c: a poll that returns
\* because a read is in flight leaves probeDirty set, and a later poll reads c.
C36_ProbeEventuallyRead ==
    /\ ProbePending(0) ~> ProbeServed(0)
    /\ ProbePending(1) ~> ProbeServed(1)
    /\ [][queryReturn["probe"] # "null" /\ queryReturn'["probe"] = "null" =>
              probeDirty' = probeDirty]_vars

\* the probe cell was changed while a read of the other cell was in flight, and a
\* second read has delivered the values of the new cell
C36_Witness ==
    /\ querySubmits["probe"] >= 2
    /\ queryInFlight["probe"] = 0
    /\ ~probeDirty
    /\ probeCell >= 0
    /\ lastProbeData = [x |-> probeCell, valuesOf |-> probeCell]

\* C37: after any sequence of updateConfig, setTimeScale and resetSimulation calls
\* the parameter values the field system and the agent system upload on the next
\* step are the values getConfig() returns.
C37_SystemsUseConfig ==
    fnInput.kind = "config" /\ fnOutput # <<>> =>
        \A k \in ConfigKeys : fnOutput.uploaded[k] = fnOutput.getConfig[k]

\* the counters AgentSystem shows to the host
HostCounters ==
    <<currentAgentCount, currentAliveCount, recentBirths, recentDeaths, recentUptake,
      evolutionBirths, evolutionDeaths>>

\* C38: after reset() the host-visible counters are changed only by readbacks
\* copied from post-reset GPU state: a counters read that ends while the readback
\* buffer still holds a copy made before the reset (a poll in flight at the reset,
\* or a poll made before any step has run since) leaves the counters as they are.
C38_NoPreResetData ==
    [][isReadbackMapped /\ ~isReadbackMapped' /\ readbackStale =>
          UNCHANGED HostCounters]_vars

(***************************************************************************)
(* Properties of the busy flags (SpecGuards).                              *)
(***************************************************************************)
\* C39: each busy flag (fieldCellMapping, agentSingleReadbackMapping,
\* agentReadbackMapping, probeMapping, isReadbackMapped) is set only while a read
\* of its type has not settled, and the step in which a read settles, with its
\* values or with an exception, leaves the flag clear: no request made after the
\* previous one has settled finds the flag set.
C39_GuardsReleased ==
    /\ [](\A q \in QueryTypes : queryMapping[q] => queryInFlight[q] > 0)
    /\ [](isReadbackMapped => readbackMaps > 0)
    /\ [][/\ \A q \in QueryTypes :
                queryInFlight'[q] < queryInFlight[q] => ~queryMapping'[q]
          /\ readbackMaps' < readbackMaps => ~isReadbackMapped']_vars

\* the last read of every query type failed with an exception, a second read of
\* the probe was accepted after its first one had settled, and no flag is set
C39_Witness ==
    /\ \A q \in QueryTypes : queryReturn[q] = "error" /\ ~queryMapping[q]
    /\ querySubmits["probe"] = 2
    /\ ~isReadbackMapped

=============================================================================
